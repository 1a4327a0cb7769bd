---------------------------- MODULE ProductSearch ----------------------------
(***************************************************************************)
(* From the user's sentence to a ranked result, on the three routes of the *)
(* program:                                                                *)
(*   candidate    CandidateSearch (candidate_search.py) and its completion *)
(*                with pictures (candidate_completion.py) or without       *)
(*                (candidate_image_free.py), into the history of           *)
(*                provisional_history_repository.py;                       *)
(*   pipeline     the intent of the language model (orchestrator.py) and   *)
(*                the typed ranking of product_pipeline.py;                *)
(*   provisional  the same intent, run_provisional_search                  *)
(*                (provisional_search_pipeline.py) with the calibrated     *)
(*                picture component.                                       *)
(* The provider delivers the entries of its response one by one; the code  *)
(* sees the response as a whole.                                           *)
(*                                                                         *)
(* A request is a record: source, route, queries (how many), images        *)
(* ("off", "on"), parsed (is there a syntax parser?), extractor (and a     *)
(* model that finds the clauses a picture shows?), allowEmpty (may it find *)
(* none?), bilingual (are the terms of both languages there?), lifetime    *)
(* (may the plan expire?), looks (visual conditions approved elsewhere),   *)
(* close (the clauses whose references cannot be told apart), replies      *)
(* (what the language model may answer) and offer (an index of Entries,    *)
(* which bounds what the provider may deliver).  A plan adds what was made *)
(* of it: conditions (those about the text), visual (those about the       *)
(* picture) and target (the prices that are wanted).                       *)
(***************************************************************************)
EXTENDS TypedRanking, CandidatePreparation, IntentGrounding

CONSTANTS
    Requests,          \* the requests users make
    Entries            \* the entries a provider may deliver, for each offer

(* What a request, an entry and a picture hold: prices are positive and    *)
(* none is above MAX_PRICE_JPY (PriceCondition), a text has a value for    *)
(* every clause, and pictures are calibrated with at least one condition   *)
(* about them (VisualConditionSet).                                        *)
Amounts(prices) == IsFiniteSet(prices) /\ prices \subseteq Nat \ {0}
OnClauses(text, values) ==
    DOMAIN text = 1..MaxClauses /\ \A i \in 1..MaxClauses : text[i] \in values

ReplyAssumption(reply) ==
    IsFiniteSet(reply.claims) /\ IsFiniteSet(reply.terms) /\ Amounts(reply.price)
RequestAssumption(r) ==
    /\ DOMAIN r.source = 1..Len(r.source) /\ Len(r.source) \in Nat
    /\ \A i \in DOMAIN r.source : r.source[i].kind = "price" => Amounts(r.source[i].accepted)
    /\ \A reply \in r.replies : ReplyAssumption(reply)
    /\ IsFiniteSet(r.looks) /\ \A c \in r.looks : c.at \in 1..MaxClauses
    /\ r.route = "provisional" => r.looks # {}
    /\ r.offer \in DOMAIN Entries /\ r.parsed \in BOOLEAN /\ r.bilingual \in BOOLEAN
EntryAssumption(e) ==
    /\ e.price \in Nat /\ e.name \in Nat /\ e.nameEn \in Nat
    /\ e.rating \in Nat /\ e.negatives \in Nat
    /\ IsFiniteSet(e.facts) /\ \A f \in e.facts : f.source \in 1..3
    /\ OnClauses(e.told, Denies..Full) /\ OnClauses(e.head, Denies..Full)
    /\ OnClauses(e.en, Denies..Full)

ASSUME ProductSearchAssumption ==
    /\ MaxClauses \in Nat
    /\ \A r \in Requests : RequestAssumption(r)
    /\ \A offer \in DOMAIN Entries : \A e \in Entries[offer] : EntryAssumption(e)
    /\ \A p \in Pictures : OnClauses(Margin[p], -Unit..Unit) /\ TextFit[p] \in 0..(2 * Unit)

VARIABLES
    plan,
    state,             \* _state of CandidateSearch and CandidateSearchFlow
    expired,           \* is it later than expires_at?
    response,          \* the entries delivered so far
    batch,             \* the normalized batch
    review,            \* _review: what is asked about the products found
    selected,          \* _selected: the labels chosen for the quantities
    pictures,          \* what the image proxy returned for each product
    ranked,            \* the rows of the ranking
    failure            \* the stage that failed

vars ==
    <<plan, state, expired, response, batch, review, selected, pictures, ranked, failure>>

NoLabel == NoName
NoBatch == [products |-> <<>>, rejections |-> {}]
NoReview == [conditions |-> {}, options |-> {}, unresolved |-> {}, automatic |-> {}]

Typed == plan.conditions
ScoredConditions(p) == p.conditions \cup (IF p.bilingual THEN p.visual ELSE {})

Products == {batch.products[i] : i \in DOMAIN batch.products}

-----------------------------------------------------------------------------
(* One row of the candidate ranking, with the score and the weight of      *)
(* every condition.                                                        *)

ById(conditions, id) == CHOOSE c \in conditions : c.id = id

(* The label a condition is evaluated under: the one selected for a        *)
(* quantity, or its own (_requirements).                                   *)
RankingLabels ==
    [id \in {c.id : c \in Typed} |->
        LET c == ById(Typed, id)
        IN IF c.kind \in {"number", "price"} /\ id \in DOMAIN selected
           THEN selected[id] ELSE c.label]
States(e) ==
    [id \in {c.id : c \in Typed} |-> Decision(e, ById(Typed, id), RankingLabels[id])]

Score(e, c, states, labels) ==
    IF c.kind = "visual" THEN ConditionScore(e, c, NoLabel, "unknown")
    ELSE IF plan.bilingual THEN ConditionScore(e, c, labels[c.id], states[c.id])
    ELSE BaseScore(e, c, labels[c.id], states[c.id])

(* What is scored, and the sum of one strength.                            *)
Evaluated == Typed \cup (IF plan.bilingual THEN plan.visual ELSE {})
Scores(e, states, labels) ==
    [id \in {c.id : c \in Evaluated} |-> Score(e, ById(Evaluated, id), states, labels)]
Ratio(scores, strength) ==
    SumFunction([c \in {d \in Evaluated : d.strength = strength} |->
                    Weight(ScoredConditions(plan), c) * scores[c.id]])

(* The row of an entry whose evaluation is states and whose conditions are *)
(* scored under these labels.                                              *)
CandidateRow(i, states, labels) ==
    LET e == response[i]
        scores == Scores(e, states, labels)
    IN [index |-> i, status |-> Status(Typed, states), states |-> states, scores |-> scores,
        weights |-> [id \in {c.id : c \in Evaluated} |->
                       Weight(ScoredConditions(plan), ById(Evaluated, id))],
        required |-> Ratio(scores, "required"), preferred |-> Ratio(scores, "preferred"),
        excluded |-> Ratio(scores, "excluded"),
        lexical |-> IF plan.bilingual THEN Max({e.name, e.nameEn}) ELSE e.name,
        rating |-> e.rating, image |-> [status |-> "not_used", score |-> 0], text |-> -1]
RankedRow(i) == CandidateRow(i, States(response[i]), RankingLabels)

(* candidate_sort_key: an excluded condition weighs half a status. *)
CandidateKey(row) ==
    LET half == Max({1, Denominator(ScoredConditions(plan), "excluded")})
    IN <<2 * half * StatusOrder(row.status) + row.excluded,
         -row.required, -row.preferred, -row.lexical, row.index>>

(* The orders of the completed rankings: sort_key of candidate_image_free  *)
(* and _priority_sort_key of candidate_completion; -1 stands for missing.  *)
ImageFreeKey(row) ==
    <<row.excluded, -row.lexical, -row.required, -row.preferred,
      -(IF row.rating = 0 THEN -1 ELSE row.rating), row.index>>
PriorityKey(row) ==
    <<row.excluded, -row.lexical, -row.required, -row.preferred, -row.text,
      -(IF row.image.status = "available" THEN row.image.score ELSE -1),
      -(IF row.rating = 0 THEN -1 ELSE row.rating), row.index>>

(* A row stands behind the rows whose keys come before its own. *)
Place(keys, k) == 1 + Cardinality({l \in DOMAIN keys : Before(keys[l], keys[k])})
Sorted(rows, keys) ==
    [n \in DOMAIN rows |-> rows[CHOOSE k \in DOMAIN rows : Place(keys, k) = n]]
InOrder(keys) == \A i \in 1..(Len(keys) - 1) : Before(keys[i], keys[i + 1])

(* The typed row of the other two routes. *)
TypedStates(e) ==
    [id \in {c.id : c \in Typed} |->
        Decision(e, ById(Typed, id), ById(Typed, id).label)]
TypedRow(i, image) ==
    LET e == response[i]
        states == TypedStates(e)
    IN [index |-> i, status |-> Status(Typed, states), image |-> image,
        required |-> Matches(Typed, states, "required"),
        preferred |-> Matches(Typed, states, "preferred"),
        total |-> TotalScore(SourceComponents(Typed, states, plan.target, e)
                                 \cup PictureComponent(image), e)]

TypedRows(images) ==
    LET rows == [k \in DOMAIN batch.products |->
                    TypedRow(batch.products[k], images[batch.products[k]])]
    IN Sorted(rows, [k \in DOMAIN rows |-> TypedKey(rows[k])])

EvidenceRefused ==
    \E i \in Products, c \in Typed : TooMuchEvidence(response[i], c, RankingLabels[c.id])

(* What the image proxy may return for the first picture of each product:  *)
(* a picture, or nothing when there is no address or the fetch fails.      *)
Fetched == [Products -> Pictures \cup {NoPicture}]
Fetchable(fetched) == \A i \in Products : fetched[i] # NoPicture => response[i].image

-----------------------------------------------------------------------------
(* The contracts that check the results again before they are kept.        *)

(* CandidateRanking.validate_text_scoring reads the labels again, from the *)
(* review and the options confirmed in it, and scores the evaluation that  *)
(* a row brings along under them.                                          *)
\* mutant: the options that were confirmed are forgotten
ContractLabelsOfReview ==
    [id \in {c.id : c \in review.conditions} |-> ById(review.conditions, id).label]
ContractLabels ==
    [id \in {c.id : c \in review.conditions} |->
        IF id \in DOMAIN selected THEN selected[id] ELSE ById(review.conditions, id).label]
RankingAccepted(rows) ==
    /\ {c.id : c \in Typed \cup plan.visual} = {c.id : c \in review.conditions \cup plan.visual}
    /\ \A id \in DOMAIN selected : selected[id] \in review.options
    /\ \A k \in DOMAIN rows :
           rows[k] = CandidateRow(rows[k].index, rows[k].states, ContractLabels)
    /\ InOrder([k \in DOMAIN rows |-> CandidateKey(rows[k])])

(* TypedRankedProductBatch.validate_ranked_products, and validate_products *)
(* of the provisional batch                                                *)
TypedAccepted(rows, images) ==
    /\ InOrder([k \in DOMAIN rows |-> TypedKey(rows[k])])
    /\ \A k \in DOMAIN rows : rows[k] = TypedRow(rows[k].index, images[rows[k].index])

(* complete_candidate_ranking; TextFit is there whenever the picture is.   *)
WithPicture(row, fetched) ==
    LET picture == fetched[row.index]
    IN [row EXCEPT !.image = RelativeComponent(plan.visual, plan.close, picture),
                   !.text = IF picture = NoPicture THEN -1 ELSE TextFit[picture]]

(* CandidateVisualRanking.validate_bindings *)
VisualAccepted(rows, fetched) ==
    /\ InOrder([k \in DOMAIN rows |-> PriorityKey(rows[k])])
    /\ {rows[k] : k \in DOMAIN rows} = {WithPicture(ranked[k], fetched) : k \in DOMAIN ranked}
    /\ Len(rows) = Len(ranked)

(* condition_weights, as the history recomputes them from the rows it gets *)
HistoryWeights(row) ==
    LET conditions == {c \in Typed \cup plan.visual : c.id \in DOMAIN row.weights}
    IN \A c \in conditions : row.weights[c.id] = Weight(conditions, c)

(* ProvisionalHistoryWrite: metadata, evidence and the display texts, the  *)
(* titles of both languages among them.                                    *)
Displayable(e) == e.title # "cut" /\ e.titleEn # "cut"
HistoryAccepted(rows) ==
    /\ \A k \in DOMAIN rows : Displayable(response[rows[k].index])
    /\ plan.bilingual => \A k \in DOMAIN rows : HistoryWeights(rows[k])
    /\ IF plan.images = "off"
       THEN \A k \in DOMAIN rows : rows[k].image.status = "not_used"
       ELSE /\ rows # <<>>
            /\ \A k \in DOMAIN rows : rows[k].image.status # "not_used"

-----------------------------------------------------------------------------
Unplanned(r) ==
    [source |-> r.source, route |-> r.route, queries |-> r.queries, images |-> r.images,
     parsed |-> r.parsed, extractor |-> r.extractor, allowEmpty |-> r.allowEmpty,
     bilingual |-> r.bilingual, lifetime |-> r.lifetime, close |-> r.close,
     replies |-> r.replies, offer |-> r.offer,
     conditions |-> {}, visual |-> r.looks, target |-> NoPrice]

Init ==
    /\ plan \in {Unplanned(request) : request \in Requests}
    /\ state = "preparing"
    /\ expired = FALSE
    /\ response = <<>>
    /\ batch = NoBatch
    /\ review = NoReview
    /\ selected = <<>>
    /\ pictures = <<>>
    /\ ranked = <<>>
    /\ failure = "none"

Fail(stage) ==
    /\ state' = "failed"
    /\ failure' = stage

Planned(conditions, visual, queries, target) ==
    /\ plan' = [plan EXCEPT !.conditions = conditions, !.visual = visual,
                            !.queries = queries, !.target = target]
    /\ state' = "retrieval_review"
    /\ UNCHANGED failure
Refuse(stage) == Fail(stage) /\ UNCHANGED plan

(* The rest of CandidateSearch once the visual rows are known. *)
Build(rows) ==
    IF QueriesBuilt(plan.source, plan.parsed, rows)
    THEN Planned(CandidateConditions(plan.source, rows),
                 {VisualRequirement(r) : r \in rows}, plan.queries, NoPrice)
    ELSE Refuse("query_build")

(* CandidateSearch.__init__ up to the call of the model. *)
Prepare ==
    LET source == plan.source
        scoped == plan.parsed \/ plan.images = "off" \/ plan.extractor
        clauses == VisualClauses(source, plan.parsed)
        extracting == plan.extractor /\ plan.images = "on" /\ ~ (plan.allowEmpty /\ clauses = {})
    IN /\ state = "preparing"
       /\ plan.route = "candidate"
       /\ IF ~ Analyzable(source) \/ Contradictory(AllFacts(source))
            THEN Refuse("condition_strength")
          ELSE IF scoped /\ ~ ScopeClear(source, plan.parsed) THEN Refuse("product_scope")
          ELSE IF plan.images = "off"
            THEN IF Cardinality(clauses) > MaxVisual THEN Refuse("visual_count")
                 ELSE Build(VisualRows(source, clauses))
          ELSE IF ~ extracting THEN Build({})
          ELSE IF clauses = {} /\ Neutral(source) # {} THEN Refuse("empty_conditions")
          ELSE state' = "extracting" /\ UNCHANGED <<plan, failure>>
       /\ UNCHANGED <<expired, response, batch, review, selected, pictures, ranked>>

(* The model answers with rows, or with something that is none. *)
Extract(rows) ==
    /\ state = "extracting"
    /\ IF RowsValid(plan.source, plan.parsed, rows) THEN Build(rows)
       ELSE Refuse("visual_extraction")
    /\ UNCHANGED <<expired, response, batch, review, selected, pictures, ranked>>
ExtractFails ==
    /\ state = "extracting"
    /\ Refuse("visual_extraction")
    /\ UNCHANGED <<expired, response, batch, review, selected, pictures, ranked>>
Rows == {[at |-> i, strength |-> s] : i \in DOMAIN plan.source, s \in Strengths}

(* The typed routes: build_bonsai_intent_request, and then                 *)
(* execute_bonsai_intent_request with the reply and the proposal made from *)
(* the intent.                                                             *)
Ask ==
    /\ state = "preparing"
    /\ plan.route # "candidate"
    /\ state' = "asking"
    /\ UNCHANGED <<plan, expired, response, batch, review, selected, pictures, ranked, failure>>

Answer(reply) ==
    LET conditions == IntentConditions(plan.source, reply)
    IN /\ state = "asking"
       /\ IF reply.kind = "unreachable" THEN Refuse("request")
          ELSE IF \/ reply.kind = "broken" \/ ~ FollowsFacts(plan.source, reply)
                  \/ reply.kind = "names" /\ ~ NeedsNames(plan.source)
            THEN Refuse("response")
          ELSE IF Blocking(plan.source, reply) \/ ~ ProposalReady(conditions)
            THEN state' = "blocked" /\ UNCHANGED <<plan, failure>>
          ELSE Planned(conditions, plan.visual, IF reply.english THEN 2 ELSE 1,
                       IntentPrice(plan.source, reply))
       /\ UNCHANGED <<expired, response, batch, review, selected, pictures, ranked>>

(* A plan made by prepare_candidate_search with a lifetime expires. *)
Expire ==
    /\ plan.lifetime
    /\ ~ expired
    /\ state \in {"retrieval_review", "fetching", "attribute_review", "confirmed"}
    /\ expired' = TRUE
    /\ UNCHANGED <<plan, state, response, batch, review, selected, pictures, ranked, failure>>

(* approve_and_fetch claims the retrieval before it calls the transport. *)
ApproveAndFetch ==
    /\ state = "retrieval_review"
    /\ ~ expired
    /\ state' = "fetching"
    /\ UNCHANGED <<plan, expired, response, batch, review, selected, pictures, ranked, failure>>

Deliver(e) ==
    /\ state = "fetching"
    /\ Len(response) <= MaxCandidates
    /\ e.place = "next" => response # <<>> /\ response[Len(response)].place # "bare"
    /\ response' = Append(response, e)
    /\ UNCHANGED <<plan, state, expired, batch, review, selected, pictures, ranked, failure>>

FetchFails ==
    /\ state = "fetching"
    /\ Fail("retrieval")
    /\ UNCHANGED <<plan, expired, response, batch, review, selected, pictures, ranked>>

(* _build_review: the labels of the quantities the products show, the      *)
(* quantities that have none, for which the user has to select one, and    *)
(* those whose own label is among them.                                    *)
Options(made) ==
    {f.label : f \in {g \in UNION {response[i].facts : i \in {made.products[k] :
                                        k \in DOMAIN made.products}} :
                        g.value # Unreadable /\ g.label \notin Reserved}}
Asked(options) ==
    LET quantities == {c \in Typed : c.kind = "number"}
    IN [conditions |-> Typed, options |-> options,
        unresolved |-> {c.id : c \in {d \in quantities : d.label = NoLabel}},
        automatic |-> {c.id : c \in {d \in quantities : d.label \in options \ {NoLabel}}}]

(* _validated_execution: the provisional route takes one query only. *)
FetchReturns ==
    /\ state = "fetching"
    /\ IF TooMany(response) \/ (plan.route = "provisional" /\ plan.queries # 1)
       THEN Fail("retrieval") /\ UNCHANGED <<batch, review>>
       ELSE LET made == Normalize(plan.queries, response)
            IN /\ batch' = made
               /\ IF plan.route = "candidate"
                  THEN state' = "attribute_review" /\ review' = Asked(Options(made))
                  ELSE state' = "normalized" /\ UNCHANGED review
               /\ UNCHANGED failure
    /\ UNCHANGED <<plan, expired, response, selected, pictures, ranked>>

(* confirm: every quantity without a label gets one of the options; those  *)
(* with a label the products show keep it.                                 *)
Confirm(selections) ==
    /\ state = "attribute_review"
    /\ ~ expired
    /\ selected' = [id \in review.unresolved \cup review.automatic |->
                       IF id \in review.unresolved THEN selections[id]
                       ELSE ById(review.conditions, id).label]
    /\ state' = "confirmed"
    /\ UNCHANGED <<plan, expired, response, batch, review, pictures, ranked, failure>>

(* CandidateSearch.rank *)
Rank ==
    /\ state = "confirmed"
    /\ ~ expired
    /\ LET scored == [k \in DOMAIN batch.products |-> RankedRow(batch.products[k])]
           rows == Sorted(scored, [k \in DOMAIN scored |-> CandidateKey(scored[k])])
       IN IF ~ ProposalReady(Typed) THEN Fail("ranking_requirements") /\ UNCHANGED ranked
          ELSE IF EvidenceRefused THEN Fail("ranking") /\ UNCHANGED ranked
          ELSE IF ~ RankingAccepted(rows) THEN Fail("ranking_contract") /\ UNCHANGED ranked
          ELSE state' = "ranked" /\ ranked' = rows /\ UNCHANGED failure
    /\ UNCHANGED <<plan, expired, response, batch, review, selected, pictures>>

(* The completed ranking becomes the pending history, or the search fails. *)
Keep(rows) ==
    IF HistoryAccepted(rows)
    THEN state' = "history_pending" /\ ranked' = rows /\ UNCHANGED failure
    ELSE Fail("history_snapshot") /\ UNCHANGED ranked

(* complete_image_free, image_free_history *)
CompleteImageFree ==
    /\ state = "ranked"
    /\ plan.images = "off"
    /\ Keep(Sorted(ranked, [k \in DOMAIN ranked |-> ImageFreeKey(ranked[k])]))
    /\ UNCHANGED <<plan, expired, response, batch, review, selected, pictures>>

CompleteWithImages(fetched) ==
    /\ state = "ranked"
    /\ plan.images = "on"
    /\ Fetchable(fetched)
    /\ pictures' = fetched
    /\ LET seen == [k \in DOMAIN ranked |-> WithPicture(ranked[k], fetched)]
           rows == Sorted(seen, [k \in DOMAIN seen |-> PriorityKey(seen[k])])
       IN IF EvaluationRefused(1, ranked, fetched)
            THEN Fail("visual_evaluation") /\ UNCHANGED ranked
          ELSE IF ~ VisualAccepted(rows, fetched)
            THEN Fail("visual_contract") /\ UNCHANGED ranked
          ELSE Keep(rows)
    /\ UNCHANGED <<plan, expired, response, batch, review, selected>>

(* retry_history, once the database takes the write. *)
Save ==
    /\ state = "history_pending"
    /\ state' = "saved"
    /\ UNCHANGED <<plan, expired, response, batch, review, selected, pictures, ranked, failure>>

(* from_approved_plan: a saved plan may be searched again, once a person   *)
(* authorises it; what was made of the sentence is kept.                   *)
Reopen(playwright) ==
    /\ state = "saved"
    /\ plan' = [plan EXCEPT !.lifetime = ~ playwright]
    /\ state' = "retrieval_review"
    /\ expired' = FALSE
    /\ response' = <<>>
    /\ batch' = NoBatch
    /\ review' = NoReview
    /\ selected' = <<>>
    /\ pictures' = <<>>
    /\ ranked' = <<>>
    /\ UNCHANGED failure

(* rank_typed_product_batch, as complete_product_search uses it *)
RankTyped ==
    /\ state = "normalized"
    /\ plan.route = "pipeline"
    /\ LET images == [i \in Products |-> Unavailable("disabled")]
           rows == TypedRows(images)
       IN IF EvidenceRefused THEN Fail("ranking") /\ UNCHANGED ranked
          ELSE IF ~ TypedAccepted(rows, images) THEN Fail("ranking_contract") /\ UNCHANGED ranked
          ELSE state' = "completed" /\ ranked' = rows /\ UNCHANGED failure
    /\ UNCHANGED <<plan, expired, response, batch, review, selected, pictures>>

(* run_provisional_search after the normalization *)
RankProvisional(fetched) ==
    LET seen == Deduplicated(batch.products, fetched)
        images == [i \in Products |-> CalibratedComponent(plan.visual, plan.close, seen, i)]
        rows == TypedRows(images)
    IN /\ state = "normalized"
       /\ plan.route = "provisional"
       /\ Fetchable(fetched)
       /\ pictures' = fetched
       /\ IF EvidenceRefused THEN Fail("ranking") /\ UNCHANGED ranked
          ELSE IF EvaluationRefused(MinCalibrated, batch.products, fetched)
            THEN Fail("visual_evaluation") /\ UNCHANGED ranked
          ELSE IF ~ TypedAccepted(rows, images) THEN Fail("ranking_contract") /\ UNCHANGED ranked
          ELSE IF ~ ResultAccepted(rows)
            THEN Fail("result_validation") /\ UNCHANGED ranked
          ELSE state' = "completed" /\ ranked' = rows /\ UNCHANGED failure
       /\ UNCHANGED <<plan, expired, response, batch, review, selected>>

Next ==
    \/ Prepare
    \/ \E rows \in {s \in SUBSET Rows : Cardinality(s) <= MaxVisual + 1} : Extract(rows)
    \/ ExtractFails
    \/ Ask
    \/ \E reply \in plan.replies : Answer(reply)
    \/ Expire
    \/ ApproveAndFetch
    \/ \E e \in Entries[plan.offer] : Deliver(e)
    \/ FetchFails
    \/ FetchReturns
    \/ \E selections \in [review.unresolved -> review.options] : Confirm(selections)
    \/ Rank
    \/ CompleteImageFree
    \/ \E fetched \in Fetched : CompleteWithImages(fetched)
    \/ Save
    \/ \E playwright \in BOOLEAN : Reopen(playwright)
    \/ RankTyped
    \/ \E fetched \in Fetched : RankProvisional(fetched)

Spec == Init /\ [][Next]_vars

-----------------------------------------------------------------------------
(* Properties.                                                             *)

Normalizing == batch # NoBatch
AcceptedEntry(i) == CandidateReason(plan.queries, response, i) = Accepted
FirstWithAsin(i) ==
    \A j \in 1..(i - 1) : AcceptedEntry(j) => response[j].asin # response[i].asin

(* Which entries a search keeps, said without the order of the loop: the   *)
(* first of every ASIN, and of the entries without one those whose URL no  *)
(* kept entry before them has.                                             *)
Kept(i) ==
    /\ AcceptedEntry(i)
    /\ IF response[i].asin # 0 THEN FirstWithAsin(i)
       ELSE response[i].url = 0
            \/ \A j \in 1..(i - 1) :
                   AcceptedEntry(j) /\ response[j].url = response[i].url
                       => response[j].asin # 0 /\ ~ FirstWithAsin(j)

BatchExact ==
    /\ Products = {i \in DOMAIN response : Kept(i)}
    /\ Products \cup {r.index : r \in batch.rejections} = DOMAIN response
    /\ \A r \in batch.rejections :
         /\ r.index \notin Products
         /\ r.of # NoIndex => r.of \in Products /\ r.of < r.index

PreparationStages ==
    {"condition_strength", "product_scope", "visual_count", "empty_conditions",
     "visual_extraction", "query_build", "request", "response"}

(* The prices a sentence speaks of, said without the reader of them: the   *)
(* amounts all of them allow, and the three ways of naming a price in      *)
(* which it gets lost: without a relation ("5000 yen"), in several places  *)
(* that are not a lower bound and then an upper one with at most neutral   *)
(* clauses between them, and with bounds that no amount meets.             *)
AllowedAmounts(source, said) ==
    {v \in UNION {source[i].accepted : i \in said} : \A i \in said : v \in source[i].accepted}
PriceLost(source, said, blank) ==
    \/ \E i \in said : source[i].about = "bare"
    \/ \E i, j \in said :
         /\ i < j
         /\ ~ (/\ source[i].about = "least" /\ source[j].about = "most"
               /\ (i + 1)..(j - 1) \subseteq blank)
    \/ AllowedAmounts(source, said) = {}

Conditions == plan.conditions \cup plan.visual

(* The plan has one condition about the price, which allows what all the   *)
(* prices of the sentence allow, in the strength of each of them; and it   *)
(* has none when there is no price or the price gets lost.                 *)
PriceFollows(source) ==
    LET said == Prices(source)
        kept == {k \in Conditions : k.kind = "price"}
    IN IF said = {} \/ PriceLost(source, said, Neutral(source)) THEN kept = {}
       ELSE /\ kept # {}
            /\ \A k \in kept : /\ k.accepted = AllowedAmounts(source, said)
                               /\ \A i \in said : k.strength = Strength(source[i])

CandidateFollows(source) ==
    LET about(i) == {k \in Conditions : k.at = i}
        silent == {i \in DOMAIN source : about(i) = {} /\ source[i].kind # "price"
                                           /\ Strength(source[i]) # "neutral"}
    IN /\ \A i \in DOMAIN source, k \in Conditions :
            k.at = i => k.strength = Strength(source[i])
       /\ \A k \in Conditions : k.at \in DOMAIN source
       /\ Cardinality(silent) = 1
       /\ silent \subseteq ProductClauses(source) \/ ~ plan.parsed
       /\ PriceFollows(source)

IntentFollows(source) ==
    LET said == {i \in DOMAIN source : source[i].kind = "price"}
    IN /\ \A i \in DOMAIN source :
            LET c == source[i]
            IN \/ c.kind = "quantity"
               \/ c.kind = "capability" /\ LegacyRead(c)
               \/ c.kind = "common" /\ LegacyRead(c) /\ FirstSaid(source, i)
               => \E k \in Typed : /\ k.at = i /\ k.label = c.about
                                   /\ k.accepted = c.accepted /\ k.strength = Strength(c)
       /\ \A k \in Typed :
            /\ k.at \in DOMAIN source
            /\ k.accepted = source[k.at].accepted \/ k.label = source[k.at].about
       /\ said = {} \/ PriceLost(source, said, {})
            \/ plan.target = AllowedAmounts(source, said)

(* What the plan of a search has of its sentence.  On the candidate route  *)
(* every clause that is not left to choice is a condition in the strength  *)
(* its words give it, but for the one phrase of the product and for a      *)
(* price that gets lost (PriceLost; docs/BACKEND.md:144 has an unmodified  *)
(* price compared like any other), and every condition is about a clause.  *)
(* On the typed routes the quantities, and the capabilities and attributes *)
(* said in a way the older reader knows, are conditions under their name   *)
(* and in their strength; further conditions the model may add, but only   *)
(* about a clause, with its values or its name; and the prices are those   *)
(* of the sentence, or the model's where it names none or one that gets    *)
(* lost (build_candidate_queries, validate_source_response,                *)
(* _ground_source_conditions).                                             *)
PlanFollowsSource ==
    state \notin {"preparing", "extracting", "asking", "blocked"}
      /\ failure \notin PreparationStages =>
        IF plan.route = "candidate" THEN CandidateFollows(plan.source)
        ELSE IntentFollows(plan.source)

(* What a product shows about a condition at the best place that says      *)
(* anything: 1 the structured fields, 2 the title, 3 the rest.             *)
BestPlace(e, label) == {f \in About(e, label) : \A g \in About(e, label) : f.source <= g.source}
Shown(e, c, label) ==
    CASE c.kind = "price" -> {PriceJpy(e)} \ {0}
      [] c.kind = "labelled" ->
           {f.value : f \in {g \in About(e, label) : g.source = Features}} \ {Unreadable}
      [] c.kind = "number" -> {f.value : f \in BestPlace(e, label)} \ {Unreadable}
      [] c.kind = "common" ->
           {f.value : f \in {g \in About(e, label) :
               /\ g.source <= 2 /\ g.value # Unreadable
               /\ \A h \in About(e, label) : h.value # Unreadable => g.source <= h.source}}
ShowsOnly(e, c, label, values) ==
    \E v \in values : Shown(e, c, label) = {v}

Confirms(e) ==
    \A c \in Typed :
        LET label == IF plan.route = "candidate" THEN RankingLabels[c.id] ELSE c.label
        IN /\ c.strength = "required" => ShowsOnly(e, c, label, c.accepted)
           /\ c.strength = "excluded" =>
                  \E v \in Shown(e, c, label) \ c.accepted : Shown(e, c, label) = {v}

(* Everything the provider delivered is either ranked once or rejected     *)
(* with a reason, a duplicate with the product it repeats; a row says      *)
(* "confirmed" only where the product shows, at the best place it says     *)
(* anything, one accepted value for each required condition and one value  *)
(* that is not accepted for each excluded one; and on the typed routes no  *)
(* other product stands before a confirmed one                             *)
(* (normalize_outscraper_products, adjudicate_requirement,                 *)
(* typed_product_sort_key).                                                *)
RankedFromEvidence ==
    /\ Normalizing => BatchExact
    /\ ranked # <<>> =>
         /\ Len(ranked) = Len(batch.products)
         /\ {ranked[k].index : k \in DOMAIN ranked} = Products
         /\ \A k \in DOMAIN ranked :
              /\ ranked[k].status = "confirmed" => Confirms(response[ranked[k].index])
              /\ plan.route # "candidate" /\ ranked[k].status = "confirmed" =>
                   \A l \in 1..(k - 1) : ranked[l].status = "confirmed"

(* A ranking this program made is never refused by its own contracts: the  *)
(* labels the ranking contract reads from the review, the scores it makes  *)
(* under them, the weights the history computes again and the counts of    *)
(* the result all fit.  What stops a search after the retrieval was paid   *)
(* is only this: a sentence that speaks of one attribute twice, more       *)
(* values of one label than a product may show, pictures that cannot be    *)
(* evaluated, or a title, in either language, that ends with a space once  *)
(* it was cut.  The documents expect less: a contradiction is to be asked  *)
(* about before the search starts (docs/BACKEND.md:148), and every         *)
(* finished result, one of no product too, is to reach the history         *)
(* (docs/BACKEND.md:1596).  (validate_text_scoring, _requirements,         *)
(* validate_ranking_metadata, validate_counts.)                            *)
HistoryAccepts ==
    CASE failure = "ranking_requirements" ->
           \E i, j \in DOMAIN plan.source :
               /\ i # j /\ plan.source[i].about = plan.source[j].about
               /\ \/ plan.source[i].kind \in {"quantity", "capability", "common"}
                  \/ plan.source[i].suffix \in {"unwanted", "without"}
      [] failure = "ranking" ->
           \E i \in Products, c \in Typed :
               c.kind # "price" /\ Cardinality({f.value : f \in response[i].facts})
                   > Min({MaxEvidence, MaxMatches})
      [] failure = "visual_evaluation" ->
           \/ Len(batch.products) > MaxEvaluated
           \/ Len(batch.products) < (IF plan.route = "candidate" THEN 1 ELSE MinCalibrated)
           \/ \E i \in Products : pictures[i] \in ReferencePictures
      [] failure = "history_snapshot" ->
           \E i \in Products : "cut" \in {response[i].title, response[i].titleEn}
      [] OTHER -> failure \in {"none", "retrieval"} \cup PreparationStages

=============================================================================
