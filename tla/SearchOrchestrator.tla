-------------------------- MODULE SearchOrchestrator --------------------------
(***************************************************************************)
(* The reviews of one search session (src/search_v2/orchestrator.py): one  *)
(* reference image at a time is generated, approved and turned into its    *)
(* comparison images; with or without images the search is reviewed,       *)
(* approved with a single-use token and run against the product provider.  *)
(*                                                                         *)
(* Reviews, image reviews, search reviews and approved searches are        *)
(* immutable values that a caller keeps and may pass in again at any time, *)
(* from any thread.  What decides is shared state: the registry of the     *)
(* session's current reference under _REFERENCE_LOCK, the usage ledger     *)
(* and the ledger of consumed approvals, each with a lock of its own, so a *)
(* function is one step per section it holds a lock for.                   *)
(*                                                                         *)
(* A reservation is reserved and started in one step (nobody tells the two *)
(* apart) and may always be refused: UsageLedger models the limits.  An    *)
(* approval or plan may be expired at any time, which refuses a call.  The *)
(* clock is not set back, so a started attempt can always be finished.     *)
(* The session has one intent review; all digests match.                   *)
(***************************************************************************)
EXTENDS Integers, Sequences, FiniteSets

CONSTANTS
    Threads,           \* threads of the process that use one session
    MaxAttempts,       \* MAX_IMAGE_SET_ATTEMPTS
    MaxConsumptions,   \* MAX_APPROVAL_CONSUMPTIONS
    MaxCharges,        \* bound: no further reservation is granted
    MaxGrants          \* bound: approvals issued

ASSUME SearchOrchestratorAssumption ==
    /\ MaxAttempts \in Nat \ {0} /\ MaxConsumptions \in Nat
    /\ MaxCharges \in Nat /\ MaxGrants \in Nat

VARIABLES
    registry,   \* _REFERENCE_REVIEWS[usage_ledger][key], absent at first
    usage,      \* the reservations of the session, in the order made
    consumed,   \* tokens in the InMemoryApprovalLedger
    threads,
    reviews,    \* ReferenceReviews that were returned
    images,     \* ImageReviews that were returned
    searches,   \* SearchReviews that were returned, by their images
    grants,     \* ApprovedSearches by token: the images of their review
    calls       \* history: product provider calls by token

results == <<reviews, images, searches, grants>>
vars    == <<registry, usage, consumed, threads, results, calls>>

-----------------------------------------------------------------------------
(* Values *)

Charges == 1..MaxCharges
Tokens  == 1..MaxGrants

\* A ReferenceReview: how many reference reservations it has, the last one,
\* whether an image was made, and prior_derived_usage.
Reviews == [attempt : 0..MaxAttempts, charge : Charges \cup {0},
            made : BOOLEAN, prior : SUBSET Charges]
NoReview == [attempt |-> 0, charge |-> 0, made |-> FALSE, prior |-> {}]

Images   == [review : Reviews, charge : Charges \cup {0}]
NoImages == [review |-> NoReview, charge |-> 0]           \* image mode off

Registries == [review : Reviews,
               status : {"absent", "generating", "pending", "deriving",
                         "consumed", "retry_ready", "discarded"}]

Entry(r, status) == [review |-> r, status |-> status]

\* The reservation's binding digest stands for the attempt of an image plan
\* or the token of a search.
Reservations == [operation : {"reference_image", "counterfactual_images",
                              "product_search"},
                 binding : Nat, status : {"started", "succeeded", "failed"}]

Finished == {"succeeded", "failed"}

Outcome(success) == IF success THEN "succeeded" ELSE "failed"

\* What a thread holds: the review it works on, the reservations it found
\* when it read the ledger, its own reservation, its token.
ThreadAt(pc, r, found, charge, token) ==
    [pc |-> pc, review |-> r, found |-> found, charge |-> charge,
     token |-> token]
Idle == ThreadAt("idle", NoReview, {}, 0, 0)

Go(t, state) == threads' = [threads EXCEPT ![t] = state]
At(t, pc)    == threads[t].pc = pc

\* _reserve_usage and _start_usage
ReserveUsage(operation, binding) ==
    /\ Len(usage) < MaxCharges
    /\ usage' = Append(usage, [operation |-> operation, binding |-> binding,
                               status |-> "started"])

\* ledger.finish
FinishUsage(charge, success) ==
    usage' = [usage EXCEPT ![charge].status = Outcome(success)]

\* _validate_current_images
CurrentImages(im) ==
    im # NoImages => registry = Entry(im.review, "consumed")

-----------------------------------------------------------------------------

Init ==
    /\ registry = Entry(NoReview, "absent")
    /\ usage = <<>> /\ consumed = {}
    /\ threads = [t \in Threads |-> Idle]
    /\ reviews = {} /\ images = {} /\ searches = {} /\ grants = <<>>
    /\ calls = [k \in Tokens |-> 0]

-----------------------------------------------------------------------------
(* generate_images, regenerate_images, retry_failed_images *)

\* The earlier comparison images of the review to replace, as the ledger has
\* them now: read before the registry is locked.
Found(prev) ==
    {[charge |-> i, status |-> usage[i].status] :
        i \in {j \in DOMAIN usage :
                  /\ usage[j].operation = "counterfactual_images"
                  /\ usage[j].binding = prev.attempt}}

GenerateBegin(t, prev) ==
    /\ At(t, "idle")
    /\ Go(t, ThreadAt("generate_lock", prev, Found(prev), 0, 0))
    /\ UNCHANGED <<registry, usage, consumed, results, calls>>

\* May prev be replaced?
Replaceable(prev) ==
    IF prev = NoReview
    THEN registry \in {Entry(NoReview, "absent"), Entry(NoReview, "retry_ready")}
    ELSE /\ prev.attempt < MaxAttempts
         /\ registry \in {Entry(prev, s) : s \in {"pending", "consumed",
                                                  "retry_ready"}}

GenerateLock(t) ==
    /\ At(t, "generate_lock")
    /\ IF Replaceable(threads[t].review)
       THEN /\ registry' = Entry(threads[t].review, "generating")
            /\ Go(t, [threads[t] EXCEPT !.pc = "generate_reserve"])
       ELSE Go(t, Idle) /\ UNCHANGED registry
    /\ UNCHANGED <<usage, consumed, results, calls>>

GenerateReserve(t) ==
    /\ At(t, "generate_reserve")
    /\ ReserveUsage("reference_image", threads[t].review.attempt + 1)
    /\ Go(t, [threads[t] EXCEPT !.pc = "generate_call",
                                !.charge = Len(usage) + 1])
    /\ UNCHANGED <<registry, consumed, results, calls>>

GenerateRefusedRestores(t) ==                                \* mutant
    /\ At(t, "generate_reserve")
    /\ registry' = Entry(threads[t].review, "consumed")
    /\ Go(t, Idle)
    /\ UNCHANGED <<usage, consumed, results, calls>>
GenerateRefused(t) ==
    /\ At(t, "generate_reserve")
    /\ registry' = Entry(threads[t].review, "retry_ready")
    /\ Go(t, Idle)
    /\ UNCHANGED <<usage, consumed, results, calls>>

\* The image is made or not and the reservation finished.  ReferenceReview
\* then accepts only finished reservations: if it raises, the thread leaves
\* with the registry as it is.
GenerateCall(t, made) ==
    LET th == threads[t]
        result == [attempt |-> th.review.attempt + 1, charge |-> th.charge,
                   made |-> made, prior |-> {f.charge : f \in th.found}]
    IN /\ At(t, "generate_call")
       /\ FinishUsage(th.charge, made)
       /\ Go(t, IF \A f \in th.found : f.status \in Finished
                THEN ThreadAt("generate_publish", result, {}, 0, 0) ELSE Idle)
       /\ UNCHANGED <<registry, consumed, results, calls>>

GeneratePublish(t) ==
    /\ At(t, "generate_publish")
    /\ registry' = Entry(threads[t].review, "pending")
    /\ reviews' = reviews \cup {threads[t].review}
    /\ Go(t, Idle)
    /\ UNCHANGED <<usage, consumed, images, searches, grants, calls>>

-----------------------------------------------------------------------------
(* approve_reference_image *)

Approvable(r) == r.made /\ registry = Entry(r, "pending")

ApproveReference(t, r) ==
    /\ At(t, "idle")
    /\ Approvable(r)
    /\ registry' = Entry(r, "deriving")
    /\ Go(t, ThreadAt("derive_reserve", r, {}, 0, 0))
    /\ UNCHANGED <<usage, consumed, results, calls>>

DeriveReserve(t) ==
    /\ At(t, "derive_reserve")
    /\ ReserveUsage("counterfactual_images", threads[t].review.attempt)
    /\ Go(t, [threads[t] EXCEPT !.pc = "derive_call", !.charge = Len(usage) + 1])
    /\ UNCHANGED <<registry, consumed, results, calls>>

DeriveRefused(t) ==
    /\ At(t, "derive_reserve")
    /\ Go(t, [threads[t] EXCEPT !.pc = "derive_publish"])
    /\ UNCHANGED <<registry, usage, consumed, results, calls>>

\* The comparisons are made or not, and the reservation finished.
DeriveCall(t, success) ==
    /\ At(t, "derive_call")
    /\ FinishUsage(threads[t].charge, success)
    /\ Go(t, [threads[t] EXCEPT !.pc = "derive_publish"])
    /\ UNCHANGED <<registry, consumed, results, calls>>

\* What the call leaves in the registry, returned or raised
Derived(r, made) == Entry(r, "consumed")

DerivePublish(t) ==
    LET th == threads[t]
        made == th.charge # 0 /\ usage[th.charge].status = "succeeded"
    IN /\ At(t, "derive_publish")
       /\ registry' = Derived(th.review, made)
       /\ images' = images \cup
            IF made THEN {[review |-> th.review, charge |-> th.charge]} ELSE {}
       /\ Go(t, Idle)
       /\ UNCHANGED <<usage, consumed, reviews, searches, grants, calls>>

-----------------------------------------------------------------------------
(* skip_images and accept_images *)

SkipIntent ==
    /\ registry.status = "absent"
    /\ searches' = searches \cup {NoImages}
    /\ UNCHANGED <<registry, usage, consumed, threads, reviews, images, grants,
                   calls>>

\* _build_search_review, after the images were discarded; it raises when the
\* postal code is not valid
Reviewed(valid) == searches' = searches \cup IF valid THEN {NoImages} ELSE {}

SkipReference(r, valid) ==
    /\ registry \in {Entry(r, s) : s \in {"pending", "consumed", "retry_ready"}}
    /\ registry' = Entry(r, "discarded")
    /\ Reviewed(valid)
    /\ UNCHANGED <<usage, consumed, threads, reviews, images, grants, calls>>

\* An ImageReview is checked and then discarded under the lock again.
SkipImagesBegin(t, im) ==
    /\ At(t, "idle")
    /\ CurrentImages(im)
    /\ Go(t, ThreadAt("skip_discard", im.review, {}, 0, 0))
    /\ UNCHANGED <<registry, usage, consumed, results, calls>>

SkipImagesDiscard(t, valid) ==
    /\ At(t, "skip_discard")
    /\ registry' = Entry(threads[t].review, "discarded")
    /\ Reviewed(valid)
    /\ Go(t, Idle)
    /\ UNCHANGED <<usage, consumed, reviews, images, grants, calls>>

AcceptImages(im) ==
    /\ CurrentImages(im)
    /\ searches' = searches \cup {im}
    /\ UNCHANGED <<registry, usage, consumed, threads, reviews, images, grants,
                   calls>>

-----------------------------------------------------------------------------
(* approve_search and run_search *)

ApproveSearch(im) ==
    /\ CurrentImages(im)
    /\ Len(grants) < MaxGrants
    /\ grants' = Append(grants, im)
    /\ UNCHANGED <<registry, usage, consumed, threads, reviews, images,
                   searches, calls>>

\* _authorize_approved_search: the token is looked up first ...
RunBegin(t, token) ==
    /\ At(t, "idle")
    /\ token \notin consumed
    /\ Go(t, ThreadAt("run_validate", NoReview, {}, 0, token))
    /\ UNCHANGED <<registry, usage, consumed, results, calls>>

\* ... then the images are checked (_validate_plan_ledger) ...
RunValidate(t) ==
    /\ At(t, "run_validate")
    /\ Go(t, IF CurrentImages(grants[threads[t].token])
             THEN [threads[t] EXCEPT !.pc = "run_reserve"] ELSE Idle)
    /\ UNCHANGED <<registry, usage, consumed, results, calls>>

\* ... the charge is reserved and started ...
RunReserve(t) ==
    /\ At(t, "run_reserve")
    /\ ReserveUsage("product_search", threads[t].token)
    /\ Go(t, [threads[t] EXCEPT !.pc = "run_claim", !.charge = Len(usage) + 1])
    /\ UNCHANGED <<registry, consumed, results, calls>>

RunRefused(t) ==
    /\ At(t, "run_reserve")
    /\ Go(t, Idle)
    /\ UNCHANGED <<registry, usage, consumed, results, calls>>

\* ... and the token claimed (consume_search_approval, claim).
ClaimableAgain(token) ==                                     \* mutant
    token \in consumed \/ Cardinality(consumed) < MaxConsumptions
Claimable(token) ==
    token \notin consumed /\ Cardinality(consumed) < MaxConsumptions

RunClaim(t) ==
    /\ At(t, "run_claim")
    /\ Claimable(threads[t].token)
    /\ consumed' = consumed \cup {threads[t].token}
    /\ Go(t, [threads[t] EXCEPT !.pc = "run_call"])
    /\ UNCHANGED <<registry, usage, results, calls>>

\* The token was claimed meanwhile, there is no room, or it has expired: the
\* charge is closed as failed.
ClosedNot(charge) == UNCHANGED usage                         \* mutant
Closed(charge) == FinishUsage(charge, FALSE)

RunClaimFails(t) ==
    /\ At(t, "run_claim")
    /\ Closed(threads[t].charge)
    /\ Go(t, Idle)
    /\ UNCHANGED <<registry, consumed, results, calls>>

\* execute_outscraper_request
RunCall(t, success) ==
    /\ At(t, "run_call")
    /\ calls' = [calls EXCEPT ![threads[t].token] = @ + 1]
    /\ FinishUsage(threads[t].charge, success)
    /\ Go(t, Idle)
    /\ UNCHANGED <<registry, consumed, results>>

-----------------------------------------------------------------------------

ThreadStep(t) ==
    \/ GenerateLock(t) \/ GenerateReserve(t) \/ GenerateRefused(t)
    \/ GeneratePublish(t)
    \/ DeriveReserve(t) \/ DeriveRefused(t) \/ DerivePublish(t)
    \/ RunValidate(t) \/ RunReserve(t) \/ RunRefused(t)
    \/ RunClaim(t) \/ RunClaimFails(t)
    \/ \E success \in BOOLEAN :
          \/ GenerateCall(t, success) \/ DeriveCall(t, success)
          \/ SkipImagesDiscard(t, success) \/ RunCall(t, success)

Call(t) ==
    \/ \E r \in reviews \cup {NoReview} : GenerateBegin(t, r)
    \/ \E r \in reviews : ApproveReference(t, r)
    \/ \E im \in images : SkipImagesBegin(t, im)
    \/ \E token \in DOMAIN grants : RunBegin(t, token)

AtomicCall ==
    \/ SkipIntent
    \/ \E r \in reviews, valid \in BOOLEAN : SkipReference(r, valid)
    \/ \E im \in images : AcceptImages(im)
    \/ \E im \in searches : ApproveSearch(im)

Next == AtomicCall \/ \E t \in Threads : Call(t) \/ ThreadStep(t)

Spec == Init /\ [][Next]_vars

-----------------------------------------------------------------------------
(* Safety *)

AllIdle == \A t \in Threads : At(t, "idle")

\* The variables keep their types.
TypeOK ==
    /\ registry \in Registries
    /\ usage \in Seq(Reservations) /\ Len(usage) <= MaxCharges
    /\ consumed \subseteq Tokens
    /\ threads \in [Threads ->
          [pc : {"idle", "generate_lock", "generate_reserve", "generate_call",
                 "generate_publish", "derive_reserve", "derive_call",
                 "derive_publish", "skip_discard", "run_validate",
                 "run_reserve", "run_claim", "run_call"},
           review : Reviews,
           found : SUBSET [charge : Charges,
                           status : {"started", "succeeded", "failed"}],
           charge : Charges \cup {0}, token : Tokens \cup {0}]]
    /\ reviews \subseteq Reviews /\ images \subseteq Images
    /\ searches \subseteq Images /\ grants \in Seq(Images)
    /\ calls \in [Tokens -> Nat]

\* An approval pays for one provider call: whatever threads run the same
\* approved search, and however they interleave, its token reaches the
\* product provider at most once.
TokenCallsOnce == \A k \in Tokens : calls[k] <= 1

\* No charge is left open: once every function has returned or raised, every
\* started reservation is finished, the one of the thread that lost the claim
\* of a token included.
ChargesClosed ==
    AllIdle => \A i \in DOMAIN usage : usage[i].status \in Finished

\* At most MAX_IMAGE_SET_ATTEMPTS reference images are paid for, although a
\* caller may pass any older review in again and refused attempts are free.
AttemptsBounded ==
    Cardinality({i \in DOMAIN usage : usage[i].operation = "reference_image"})
        <= MaxAttempts

\* "No later run from the same approval": comparisons are paid for at most
\* once per reference image.
DerivedOnce ==
    \A i, j \in DOMAIN usage :
        /\ usage[i].operation = "counterfactual_images"
        /\ usage[j].operation = "counterfactual_images"
        /\ usage[i].binding = usage[j].binding
        => i = j

\* Images that were replaced or discarded never become current again, although
\* three functions write the registry without looking at it (the end of a
\* generation, of an approval and of a discard): a search with old images can
\* not be approved or begun any more.
ReplacedStayReplaced ==
    [][\A im \in images : ~CurrentImages(im) => ~CurrentImages(im)']_vars

\* One paid image call at a time: the registry's generating and deriving work
\* as a lock, also when a discard overwrites them.
OneImageCall ==
    Cardinality({t \in Threads : threads[t].pc \in
        {"generate_reserve", "generate_call", "derive_reserve",
         "derive_call"}}) <= 1

\* What is paid for one session, whatever its threads pass in: one provider
\* call for each approval, a bounded number of references, one job of
\* comparisons for each, and never two image calls at a time.
PaidCallsBounded ==
    TypeOK /\ TokenCallsOnce /\ AttemptsBounded /\ DerivedOnce /\ OneImageCall

-----------------------------------------------------------------------------
(* What the documents say and two threads of one session can break *)

\* docs/BACKEND.md:811 offers skip_images() to continue without images, and
\* regenerate_images() to try again: once every function has returned or
\* raised, the session is not left in generating or deriving, in which every
\* one of them refuses it.
NeverStuck == AllIdle => registry.status \notin {"generating", "deriving"}
=============================================================================
