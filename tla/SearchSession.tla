---------------------------- MODULE SearchSession -----------------------------
(***************************************************************************)
(* One search session as its owner drives it: the snapshots of             *)
(* state_machine.py, every one checked by a validator that knows nothing   *)
(* of the transition that made it; the image providers' clients, which     *)
(* bind a paid set of images to the session; the approval plan and its     *)
(* single-use token; the product provider's client with its polling; and   *)
(* the pipeline that turns a paid answer into a finished session.          *)
(*                                                                         *)
(* A digest is the value it is taken of.  An intent determines its typed   *)
(* proposal and whether it is blocking.  The owner passes the revision of  *)
(* the snapshot it passes, so revisions always match and are left out; a   *)
(* call that is refused changes nothing and is not a step.  The clock may  *)
(* be set back, which several of the checks are about.                     *)
(***************************************************************************)
EXTENDS Integers, Sequences, FiniteSets

CONSTANTS
    Ready, Blocking,    \* intents: with a typed proposal that is ready, or not
    Policies,           \* usage policies of the ledgers
    MaxAttempts,        \* MAX_IMAGE_SET_ATTEMPTS
    MaxConsumptions,    \* MAX_APPROVAL_CONSUMPTIONS
    SetSize,            \* images of a set: len(IMAGE_ANGLES)
    MaxConditions,      \* comparison images: at most one for each condition
    TTL,                \* APPROVAL_TTL
    MaxPolls,           \* OUTSCRAPER_MAX_POLLS
    MaxCandidates,      \* maximum_candidates of a request
    MaxCharges,         \* bound: reservations made
    MaxTokens,          \* bound: approvals issued
    MaxTime,            \* bound: the clock
    MaxSetBack          \* bound: how often the clock is set back

ASSUME SearchSessionAssumption ==
    /\ {MaxAttempts, MaxConsumptions, SetSize, MaxConditions, TTL, MaxPolls,
        MaxCandidates, MaxCharges, MaxTokens, MaxTime, MaxSetBack} \subseteq Nat
    /\ Ready \cap Blocking = {} /\ 0 \notin Ready \cup Blocking
    /\ MaxAttempts # 0 /\ 0 \notin Policies

VARIABLES
    session,    \* the SearchSessionSnapshot the owner holds
    usage,      \* reservations of the usage ledger, in the order made
    consumed,   \* tokens in the InMemoryApprovalLedger
    review,     \* plan of the last SearchReview built
    tokens,     \* approvals issued
    call,       \* provider call that runs
    answer,     \* how the product search ended
    clock, setBack,
    refused,    \* history: a transition whose snapshot was not valid
    ended       \* history: reservations whose provider call is over

owner == <<review, tokens, consumed>>
vars  == <<session, usage, owner, call, answer, clock, setBack, refused, ended>>

-----------------------------------------------------------------------------
(* Values *)

None    == -1
Intents == Ready \cup Blocking

\* SearchApprovalGrant: the plan, its token, when it was issued and consumed
NoPlan  == [intent |-> 0, images |-> 0, policy |-> 0, created |-> None]
NoGrant == [plan |-> NoPlan, token |-> 0, issued |-> None, consumed |-> None]
Expires(plan) == plan.created + TTL

NoCall == [kind |-> "none", charge |-> 0, done |-> 0]

Executing == {"scrape_submitted", "products_received", "products_normalized",
              "search_completed", "search_failed"}
Results   == Executing \ {"scrape_submitted"}

\* A query plan belongs to one intent: a ready one has it, a blocking one
\* has none.
Query(i) == IF i \in Ready THEN i ELSE 0

NoImages == [mode |-> "off", attempts |-> 0, active |-> 0, failed |-> 0,
             images |-> 0, policy |-> 0]
NoProgress == [received |-> None, normalized |-> None, rejected |-> None,
               ranked |-> None, outcome |-> "none", stage |-> "none"]

-----------------------------------------------------------------------------
(* The snapshot validator: validate_state_contract *)

ReviewBound(s) ==
    /\ (s.intent # 0) = (s.state \notin {"draft", "intent_processing"})
    /\ s.intent = 0 => s.query = 0
    /\ s.intent \in Blocking => s.state = "intent_review" /\ s.query = 0
    /\ s.intent \in Ready => s.query # 0

ImagesBound(s) ==
    LET im == s.im IN
    IF im.mode = "off"
    THEN /\ im = NoImages
         /\ s.state \notin {"image_generating", "image_generation_failed",
                            "image_review"}
    ELSE /\ im.attempts \in 1..MaxAttempts /\ im.policy # 0
         /\ CASE s.state = "image_generating" ->
                    im.active # 0 /\ im.failed = 0 /\ im.images = 0
              [] s.state = "image_generation_failed" ->
                    im.active = 0 /\ im.failed # 0 /\ im.images = 0
              [] s.state \in {"image_review", "search_approval"} \cup Executing ->
                    im.active = 0 /\ im.failed = 0 /\ im.images # 0
              [] OTHER -> FALSE

\* With validate_lifetime of the grant
GrantBound(s) ==
    LET g == s.grant IN
    IF g = NoGrant
    THEN s.state \notin Executing
    ELSE /\ g.issued < Expires(g.plan)
         /\ g.consumed # None => g.issued <= g.consumed /\ g.consumed < Expires(g.plan)
         /\ \/ s.state = "search_approval" /\ g.consumed = None
            \/ s.state \in Executing /\ g.consumed # None

ProgressBound(s) ==
    LET p == s.progress
        normalized == p.normalized # None
    IN IF s.state \notin Results
       THEN p = NoProgress
       ELSE /\ (p.rejected # None) = normalized
            /\ normalized => /\ p.received # None
                             /\ p.normalized + p.rejected = p.received
            /\ CASE s.state = "products_received" ->
                      p = [NoProgress EXCEPT !.received = p.received] /\ p # NoProgress
                 [] s.state = "products_normalized" ->
                      /\ normalized /\ p.ranked = None
                      /\ p.outcome = "none" /\ p.stage = "none"
                 [] s.state = "search_completed" ->
                      /\ normalized /\ p.ranked = p.normalized /\ p.stage = "none"
                      /\ p.outcome = IF p.ranked > 0 THEN "results" ELSE "empty"
                 [] s.state = "search_failed" ->
                      /\ p.outcome = "none" /\ p.ranked = None
                      /\ p.stage \in {"product_search", "product_normalization",
                                      "ranking"}
                      /\ (p.received # None) = (p.stage # "product_search")
                      /\ normalized = (p.stage = "ranking")

ValidSnapshot(s) ==
    ReviewBound(s) /\ ImagesBound(s) /\ GrantBound(s) /\ ProgressBound(s)

-----------------------------------------------------------------------------
(* The transitions, as functions of a snapshot *)

\* _prepare_transition
Prepared(s, states) == s.state \in states /\ clock >= s.updated

Reviewed(s, i) == [s EXCEPT !.state = "intent_review", !.intent = i,
                            !.query = Query(i), !.updated = clock]

ReplacedIntentKeepsGrant(s, i) ==                            \* mutant
    [Reviewed(s, i) EXCEPT !.im = NoImages]
ReplacedIntent(s, i) ==
    [Reviewed(s, i) EXCEPT !.im = NoImages, !.grant = NoGrant]

\* approve_intent_review with images
Generating(s, c) ==
    [s EXCEPT !.state = "image_generating", !.updated = clock,
              !.im = [NoImages EXCEPT !.mode = "on", !.attempts = 1, !.active = c,
                                      !.policy = usage[c].policy]]

\* request_image_regeneration and retry_failed_image_set
GeneratingAgain(s, c) ==
    [s EXCEPT !.state = "image_generating", !.updated = clock,
              !.im.attempts = @ + 1, !.im.active = c, !.im.failed = 0,
              !.im.images = 0]

\* record_image_set
WithImages(s, c) ==
    [s EXCEPT !.state = "image_review", !.updated = clock, !.im.active = 0,
              !.im.failed = 0, !.im.images = c]

\* record_image_generation_failure, at the time the reservation was finished
WithFailure(s, c) ==
    [s EXCEPT !.state = "image_generation_failed", !.updated = clock,
              !.im.active = 0, !.im.failed = c, !.im.images = 0]

\* record_counterfactual_images
WithComparisons(s, c) ==
    [s EXCEPT !.state = "image_review", !.updated = clock,
              !.im = [NoImages EXCEPT !.mode = "on", !.attempts = 1,
                                      !.policy = usage[c].policy, !.images = c]]

ToApproval(s) == [s EXCEPT !.state = "search_approval", !.updated = clock]

\* discard_image_set and discard_failed_image_attempt
WithoutImages(s) == [ToApproval(s) EXCEPT !.im = NoImages]

\* issue_search_approval
WithGrant(s, plan) ==
    [s EXCEPT !.updated = clock,
              !.grant = [plan |-> plan, token |-> tokens + 1, issued |-> clock,
                         consumed |-> None]]

\* consume_search_approval
Submitted(s) == [s EXCEPT !.state = "scrape_submitted", !.updated = clock,
                          !.grant.consumed = clock]

\* record_products_received, record_products_normalized
Received(s, n) == [s EXCEPT !.state = "products_received", !.updated = clock,
                            !.progress.received = n]
Normalized(s, n, r) ==
    [s EXCEPT !.state = "products_normalized", !.updated = clock,
              !.progress.normalized = n, !.progress.rejected = r]

CompletedAsResults(s, n) ==                                  \* mutant
    [s EXCEPT !.state = "search_completed", !.updated = clock,
              !.progress.ranked = n, !.progress.outcome = "results"]
\* record_search_completed
Completed(s, n) ==
    [s EXCEPT !.state = "search_completed", !.updated = clock,
              !.progress.ranked = n,
              !.progress.outcome = IF n > 0 THEN "results" ELSE "empty"]

\* record_search_failed
Failed(s, stage) == [s EXCEPT !.state = "search_failed", !.updated = clock,
                              !.progress.stage = stage]

\* _advance: the new snapshot, unless the validator refuses it.
Advance(s) ==
    IF ValidSnapshot(s) THEN session' = s /\ UNCHANGED refused
    ELSE refused' = TRUE /\ UNCHANGED session

-----------------------------------------------------------------------------

\* create_search_session
Draft == [state |-> "draft", intent |-> 0, query |-> 0, im |-> NoImages,
          grant |-> NoGrant, updated |-> 0, progress |-> NoProgress]

Init ==
    /\ session = Draft
    /\ usage = <<>> /\ consumed = {} /\ review = NoPlan /\ tokens = 0
    /\ call = NoCall /\ answer = "none"
    /\ clock = 0 /\ setBack = 0
    /\ refused = FALSE /\ ended = {}

-----------------------------------------------------------------------------
(* Intent and image reviews *)

\* The owner makes one call at a time.
Free == call = NoCall

StartIntentProcessing ==
    /\ Free /\ Prepared(session, {"draft"})
    /\ Advance([session EXCEPT !.state = "intent_processing", !.updated = clock])
    /\ UNCHANGED <<usage, owner, call, answer, clock, setBack, ended>>

RecordIntentPlan(i) ==
    /\ Free /\ Prepared(session, {"intent_processing"})
    /\ Advance(Reviewed(session, i))
    /\ UNCHANGED <<usage, owner, call, answer, clock, setBack, ended>>

ReplaceIntentPlan(i) ==
    /\ Free /\ Prepared(session, {"intent_review", "image_review", "search_approval"})
    /\ Advance(ReplacedIntent(session, i))
    /\ UNCHANGED <<usage, owner, call, answer, clock, setBack, ended>>

\* _reserve_usage and _start_usage, for one operation and what it is bound to.
\* A ledger has one policy; the owner has one unused reservation at most.
Reserve(operation, binding, calls, policy) ==
    /\ Len(usage) < MaxCharges
    /\ \A c \in DOMAIN usage : /\ usage[c].status = "started" => c \in ended
                               /\ usage[c].policy = policy
    /\ usage' = Append(usage, [operation |-> operation, binding |-> binding,
                               calls |-> calls, policy |-> policy,
                               status |-> "started", started |-> clock])

\* _new_image_reservation, which names the query plan of the review at hand,
\* and the reservation of approve_reference_image
ReserveImages(operation, states, calls, policy) ==
    /\ Free /\ session.query # 0 /\ session.state \in states
    /\ Reserve(operation, session.query, calls, policy)
    /\ UNCHANGED <<session, owner, call, answer, clock, setBack, refused, ended>>

\* _validated_image_reservation
ImageReservation(s, c) ==
    /\ usage[c].operation = "image_set" /\ usage[c].status = "started"
    /\ usage[c].calls = SetSize /\ usage[c].binding = s.query
    /\ usage[c].started <= clock

ApproveIntentOff ==
    /\ Free /\ Prepared(session, {"intent_review"}) /\ session.intent \in Ready
    /\ Advance(ToApproval(session))
    /\ UNCHANGED <<usage, owner, call, answer, clock, setBack, ended>>

ApproveIntentOn(c) ==
    /\ Free /\ Prepared(session, {"intent_review"}) /\ session.intent \in Ready
    /\ ImageReservation(session, c)
    /\ Advance(Generating(session, c))
    /\ UNCHANGED <<usage, owner, call, answer, clock, setBack, ended>>

\* request_image_regeneration; after a failure retry_failed_image_set, which
\* wants another reservation than the failed one
GenerateAgain(c) ==
    /\ Free /\ Prepared(session, {"image_review", "image_generation_failed"})
    /\ session.im.attempts < MaxAttempts
    /\ ImageReservation(session, c) /\ c # session.im.failed
    /\ usage[c].policy = session.im.policy
    /\ Advance(GeneratingAgain(session, c))
    /\ UNCHANGED <<usage, owner, call, answer, clock, setBack, ended>>

ApproveImageReview ==
    /\ Free /\ Prepared(session, {"image_review"})
    /\ Advance(ToApproval(session))
    /\ UNCHANGED <<usage, owner, call, answer, clock, setBack, ended>>

DiscardImages ==
    /\ Free /\ Prepared(session, {"image_review", "image_generation_failed"})
    /\ Advance(WithoutImages(session))
    /\ UNCHANGED <<usage, owner, call, answer, clock, setBack, ended>>

-----------------------------------------------------------------------------
(* The image providers' clients.  Every response may be one the client     *)
(* rejects, or none; whatever happens, the reservation is finished.        *)

\* ledger.finish: refused when the clock was set back behind the start
Closes(c) == clock >= usage[c].started
Finish(c, success) ==
    usage' = IF Closes(c)
             THEN [usage EXCEPT ![c].status = IF success THEN "succeeded" ELSE "failed"]
             ELSE usage

\* _validated_execution_context of execute_cloudflare_image_set
StartImageSet ==
    LET c == session.im.active IN
    /\ Free /\ session.state = "image_generating"
    /\ usage[c].status = "started" /\ usage[c].policy = session.im.policy
    /\ call' = [kind |-> "image_set", charge |-> c, done |-> 0]
    /\ UNCHANGED <<session, usage, owner, answer, clock, setBack, refused, ended>>

\* _validate_context of execute_counterfactual_derived_images
StartComparisons(c) ==
    /\ Free /\ session.state = "intent_review" /\ session.intent \in Ready
    /\ usage[c].operation = "counterfactual_images" /\ usage[c].status = "started"
    /\ usage[c].binding = session.query
    /\ call' = [kind |-> "comparisons", charge |-> c, done |-> 0]
    /\ UNCHANGED <<session, usage, owner, answer, clock, setBack, refused, ended>>

\* parse_cloudflare_image_response or _artifact accepts one more image.
ImageMade ==
    /\ call.kind \in {"image_set", "comparisons"}
    /\ call.done < usage[call.charge].calls
    /\ call' = [call EXCEPT !.done = @ + 1]
    /\ UNCHANGED <<session, usage, owner, answer, clock, setBack, refused, ended>>

Over == call' = NoCall /\ ended' = ended \cup {call.charge}

\* _finish_usage or _finish with success=False; for an image set
\* _build_image_failure_review records it when the ledger has it as failed.
ImageFails ==
    LET c == call.charge IN
    /\ call.kind \in {"image_set", "comparisons"}
    /\ call.done < usage[c].calls
    /\ Finish(c, FALSE)
    /\ IF call.kind = "image_set" /\ Closes(c) /\ clock >= session.updated
       THEN Advance(WithFailure(session, c))
       ELSE UNCHANGED <<session, refused>>
    /\ Over
    /\ UNCHANGED <<owner, answer, clock, setBack>>

\* All are made: the session is advanced first, and only then the reservation
\* finished as succeeded.  A session that is ahead of the clock refuses, and
\* the reservation is finished as failed.
ImageSetDone ==
    LET c == call.charge IN
    /\ call.kind = "image_set" /\ call.done = SetSize
    /\ IF Closes(c) /\ clock >= session.updated
       THEN Advance(WithImages(session, c)) /\ Finish(c, TRUE)
       ELSE Finish(c, FALSE) /\ UNCHANGED <<session, refused>>
    /\ Over
    /\ UNCHANGED <<owner, answer, clock, setBack>>

\* The reservation is finished first, and record_counterfactual_images may
\* still refuse: the session must not have moved on since it started.
ComparisonsDone ==
    LET c == call.charge IN
    /\ call.kind = "comparisons" /\ call.done = usage[c].calls
    /\ Finish(c, TRUE)
    /\ IF /\ Closes(c) /\ clock >= session.updated
          /\ usage[c].calls \in 1..MaxConditions
          /\ usage[c].started >= session.updated
       THEN Advance(WithComparisons(session, c))
       ELSE UNCHANGED <<session, refused>>
    /\ Over
    /\ UNCHANGED <<owner, answer, clock, setBack>>

-----------------------------------------------------------------------------
(* The approval and the paid search *)

\* _build_search_review, for the usage policy of the backend
PlanOf(s, policy) == [intent |-> s.intent, images |-> s.im.images,
                      policy |-> policy, created |-> s.updated]

BuildSearchReview(policy) ==
    /\ Free /\ session.state = "search_approval" /\ session.grant = NoGrant
    /\ review' = PlanOf(session, policy)
    /\ UNCHANGED <<session, usage, tokens, consumed, call, answer, clock, setBack,
                   refused, ended>>

\* _validated_plan_for_session; validate_bindings of the plan
PlanMatchesAnyImages(s, plan) ==                             \* mutant
    plan.intent \in Ready /\ plan.intent = s.intent
PlanMatches(s, plan) ==
    /\ plan.intent \in Ready /\ plan.intent = s.intent
    /\ Query(plan.intent) = s.query
    /\ plan.images = s.im.images
    /\ s.im.mode = "on" => plan.policy = s.im.policy

IssueSearchApproval ==
    /\ Free /\ Prepared(session, {"search_approval"}) /\ session.grant = NoGrant
    /\ PlanMatches(session, review)
    /\ review.created <= clock /\ clock < Expires(review)
    /\ tokens < MaxTokens
    /\ Advance(WithGrant(session, review))
    /\ tokens' = tokens + 1
    /\ UNCHANGED <<usage, review, consumed, call, answer, clock, setBack, ended>>

\* The reservation of _authorize_approved_search
ReserveSearch(policy) ==
    /\ Free /\ session.grant # NoGrant /\ session.state = "search_approval"
    /\ clock < Expires(review)
    /\ Reserve("product_search", review, 1, policy)
    /\ UNCHANGED <<session, owner, call, answer, clock, setBack, refused, ended>>

\* _validated_outscraper_reservation
SearchReservation(s, plan, c) ==
    /\ usage[c].operation = "product_search" /\ usage[c].status = "started"
    /\ usage[c].binding = plan /\ usage[c].policy = plan.policy
    /\ s.grant.issued <= usage[c].started /\ usage[c].started <= clock

\* claim
Claimable(token) == token \notin consumed /\ Cardinality(consumed) < MaxConsumptions

\* authorize_outscraper_request and consume_search_approval: the token is
\* claimed after every check, and then the session advanced.
Authorize(c) ==
    LET g == session.grant IN
    /\ Free /\ Prepared(session, {"search_approval"}) /\ g # NoGrant
    /\ PlanMatches(session, review) /\ g.plan = review
    /\ g.issued <= clock /\ clock < Expires(g.plan)
    /\ SearchReservation(session, review, c)
    /\ Claimable(g.token)
    /\ consumed' = consumed \cup {g.token}
    /\ Advance(Submitted(session))
    /\ call' = [kind |-> "search", charge |-> c, done |-> 0]
    /\ UNCHANGED <<usage, review, tokens, answer, clock, setBack, ended>>

\* A check of _authorize_approved_search fails: _finish_failed_usage
AuthorizeFails(c) ==
    /\ Free /\ usage[c].operation = "product_search" /\ usage[c].status = "started"
    /\ c \notin ended
    /\ Finish(c, FALSE)
    /\ ended' = ended \cup {c}
    /\ UNCHANGED <<session, owner, call, answer, clock, setBack, refused>>

\* _execute_task: the answer to the request and each poll may be "pending".
Poll ==
    /\ call.kind = "search" /\ call.done < MaxPolls
    /\ call' = [call EXCEPT !.done = @ + 1]
    /\ UNCHANGED <<session, usage, owner, answer, clock, setBack, refused, ended>>

\* _validated_submitted_context and _plan_matches_session
SubmittedContext(s) ==
    /\ s.state = "scrape_submitted" /\ clock >= s.updated
    /\ PlanMatches(s, review) /\ s.grant.plan = review

\* fail_product_search
FailSearch ==
    IF SubmittedContext(session)
    THEN Advance(Failed(session, "product_search")) /\ answer' = "failed"
    ELSE answer' = "raised" /\ UNCHANGED <<session, refused>>

\* A transport error, a response the client rejects, a failed task, or still
\* pending after the last poll
SearchFails ==
    /\ call.kind = "search"
    /\ Finish(call.charge, FALSE)
    /\ FailSearch
    /\ Over
    /\ UNCHANGED <<owner, clock, setBack>>

\* What normalize_outscraper_products makes of the candidates: 0 stands for
\* one it rejects, other numbers for products by their ASIN.
Responses == UNION {[1..n -> 0..2] : n \in 0..MaxCandidates}
Rejections(data) ==
    {i \in DOMAIN data : data[i] = 0 \/ \E j \in 1..(i - 1) : data[j] = data[i]}
ProductsOf(data) == DOMAIN data \ Rejections(data)

\* complete_product_search, one call: the snapshots in between are checked as
\* well.  `fault' is where the normalisation or the ranking raises.
Progress(s, data, fault) ==
    LET received == Received(s, Len(data))
        counted  == Normalized(received, Cardinality(ProductsOf(data)),
                               Cardinality(Rejections(data)))
    IN CASE fault = "product_normalization" -> <<received, Failed(received, fault)>>
         [] fault = "ranking" -> <<received, counted, Failed(counted, fault)>>
         [] OTHER -> <<received, counted,
                       Completed(counted, Cardinality(ProductsOf(data)))>>

\* _validated_pipeline_context
PipelineContext(s, c) ==
    /\ SubmittedContext(s)
    /\ usage[c].started >= s.grant.issued
    /\ clock >= s.grant.consumed

\* ProductSearchPipelineResult
OutcomeOf(s) == IF s.state = "search_completed" THEN s.progress.outcome ELSE "failed"

SearchSucceeds(data, fault) ==
    LET c == call.charge
        steps == Progress(session, data, fault)
    IN /\ call.kind = "search"
       /\ Finish(c, TRUE)
       /\ IF ~Closes(c)
          THEN FailSearch                   \* _finish_usage raised
          ELSE IF PipelineContext(session, c)
                  /\ \A i \in DOMAIN steps : ValidSnapshot(steps[i])
               THEN /\ session' = steps[Len(steps)]
                    /\ answer' = OutcomeOf(steps[Len(steps)])
                    /\ UNCHANGED refused
               ELSE answer' = "raised" /\ UNCHANGED <<session, refused>>
       /\ Over
       /\ UNCHANGED <<owner, clock, setBack>>

-----------------------------------------------------------------------------
(* The clock, until the search has its answer *)

Tick ==
    /\ answer = "none" /\ clock < MaxTime
    /\ clock' = clock + 1
    /\ UNCHANGED <<session, usage, owner, call, answer, setBack, refused, ended>>

SetBack ==
    /\ answer = "none" /\ clock > 0 /\ setBack < MaxSetBack
    /\ clock' = clock - 1 /\ setBack' = setBack + 1
    /\ UNCHANGED <<session, usage, owner, call, answer, refused, ended>>

IntentStep ==
    \/ StartIntentProcessing
    \/ \E i \in Intents : RecordIntentPlan(i) \/ ReplaceIntentPlan(i)
    \/ ApproveIntentOff

ImageStep ==
    \/ \E p \in Policies :
            ReserveImages("image_set",
                          {"intent_review", "image_review", "image_generation_failed"},
                          SetSize, p)
    \/ \E p \in Policies, n \in 1..MaxConditions :
            ReserveImages("counterfactual_images", {"intent_review"}, n, p)
    \/ \E c \in DOMAIN usage :
            ApproveIntentOn(c) \/ GenerateAgain(c) \/ StartComparisons(c)
    \/ ApproveImageReview \/ DiscardImages
    \/ StartImageSet \/ ImageMade \/ ImageFails \/ ImageSetDone \/ ComparisonsDone

SearchStep ==
    \/ \E p \in Policies : BuildSearchReview(p) \/ ReserveSearch(p)
    \/ IssueSearchApproval
    \/ \E c \in DOMAIN usage : Authorize(c) \/ AuthorizeFails(c)
    \/ Poll \/ SearchFails
    \/ \E data \in Responses, fault \in {"none", "product_normalization", "ranking"} :
            SearchSucceeds(data, fault)

Next == IntentStep \/ ImageStep \/ SearchStep \/ Tick \/ SetBack

Spec == Init /\ [][Next]_vars

-----------------------------------------------------------------------------
(* Properties *)

\* validate_state_contract agrees with every transition: no call that passed
\* its own checks is refused by the validator of the snapshot it made, which
\* after the claim of a token would lose the approval.
ValidatorAgrees == ~refused /\ ValidSnapshot(session)

\* What is searched is what was approved: the plan bound to the token names
\* the intent and the images the session has now, whatever was replaced,
\* discarded or regenerated in between, and those images were paid for, made
\* without a failure and made from this session's query plan.
SearchedAsApproved ==
    session.state \in Executing =>
        LET plan == session.grant.plan
            c    == session.im.images
        IN /\ plan.intent = session.intent /\ plan.images = c
           /\ c # 0 => /\ usage[c].status = "succeeded"
                       /\ usage[c].binding = session.query
                       /\ usage[c].policy = plan.policy

\* Every provider call that is over has closed its reservation, and a paid
\* search has an answer the owner can see, in a session that has ended: only
\* a clock that was set back leaves a charge open or the answer lost.
CallsSettle ==
    setBack = 0 =>
        /\ \A c \in ended : usage[c].status \in {"succeeded", "failed"}
        /\ answer # "raised"
        /\ session.state \in Executing /\ call = NoCall =>
               /\ session.state \in {"search_completed", "search_failed"}
               /\ answer = OutcomeOf(session)
===============================================================================
