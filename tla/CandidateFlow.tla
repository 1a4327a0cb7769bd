---------------------------- MODULE CandidateFlow ----------------------------
(***************************************************************************)
(* CandidateSearchFlow (src/search_v2/candidate_flow.py): one owned search *)
(* from its plan to the saved history, as a record and one operator per    *)
(* method.  Every method either raises or returns; an operator gives the   *)
(* set of results, so that a provider, the approval database or the        *)
(* history database may answer or fail.                                    *)
(*                                                                         *)
(* One object belongs to one worker thread.  The methods that enter        *)
(* generating and deriving leave them again, unless the handler of a       *)
(* failure fails itself because the usage ledger refuses to finish the     *)
(* reservation; approving is seen by nobody and is no state here.  The     *)
(* browser creates its plans without a lifetime (browser_search_runtime.py,*)
(* plan_lifetime) and owner and digests always match; what expires is the  *)
(* approval of the images, issued in derive, consumed in approve_images.   *)
(***************************************************************************)
EXTENDS Integers

CONSTANTS
    MaxAttempts,   \* MAX_REFERENCE_ATTEMPTS
    ApprovalTTL    \* COUNTERFACTUAL_APPROVAL_TTL

ASSUME CandidateFlowAssumption ==
    MaxAttempts \in Nat \ {0} /\ ApprovalTTL \in Nat \ {0}

Never == -1                                       \* no expiry

FlowStates ==
    {"planned", "generating", "reference_review", "deriving", "images_review",
     "images_approved", "image_failed", "images_skipped", "fetching",
     "attribute_review", "confirmed", "evaluating", "history_pending",
     "completed", "failed"}

Flows == [state : FlowStates,
          images : {"allowed", "text_only"},      \* may images be generated?
          attempt : Nat,                          \* _attempt
          derived : Nat,                          \* _comparison_attempts
          reference : {"none", "held"},           \* _reference
          expires : Nat \cup {Never},             \* _approval_review.expires_at
          saved : Nat]                            \* history rows written

NewFlow(images) ==
    [state |-> "planned", images |-> images, attempt |-> 0, derived |-> 0,
     reference |-> "none", expires |-> Never, saved |-> 0]

Returns(f) == [flow |-> f, ok |-> TRUE]
Raises(f)  == [flow |-> f, ok |-> FALSE]

-----------------------------------------------------------------------------
(* Reference images *)

\* generate_reference (from planned) and regenerate_reference
GenerateReference(f, states) ==
    IF \/ f.state \notin states
       \/ f.images = "text_only"
       \/ f.attempt >= MaxAttempts
    THEN {Raises(f)}
    ELSE LET started == [f EXCEPT !.attempt = @ + 1, !.reference = "none",
                                  !.expires = Never]
         IN {Returns([started EXCEPT !.state = "reference_review",
                                     !.reference = "held"]),
             Raises([started EXCEPT !.state = "image_failed"]),
             Raises([started EXCEPT !.state = "generating"])}

\* approve_reference: the comparison images are derived and an approval that
\* expires is issued for the set.
ApproveReference(f, now) ==
    IF f.state # "reference_review" \/ f.derived >= MaxAttempts
    THEN {Raises(f)}
    ELSE {Returns([f EXCEPT !.state = "images_review", !.derived = @ + 1,
                            !.expires = now + ApprovalTTL]),
          Raises([f EXCEPT !.state = "image_failed", !.derived = @ + 1]),
          Raises([f EXCEPT !.state = "deriving", !.derived = @ + 1])}

RegenerateComparisons(f, now) ==
    IF \/ f.state \notin {"images_review", "images_approved", "image_failed"}
       \/ f.reference = "none"
       \/ f.derived >= MaxAttempts
    THEN {Raises(f)}
    ELSE ApproveReference([f EXCEPT !.state = "reference_review",
                                    !.expires = Never], now)

\* approve_images: the approval is consumed before it expires; the stored
\* approval may be refused, and building the artifacts may fail after it.
ApproveImages(f, now) ==
    IF f.state # "images_review" \/ now >= f.expires
    THEN {Raises(f)}
    ELSE {Returns([f EXCEPT !.state = "images_approved"]),
          Raises(f), Raises([f EXCEPT !.state = "failed"])}

SkipImages(f) ==
    IF f.state \in {"planned", "reference_review", "images_review",
                    "images_approved", "image_failed"}
    THEN {Returns([f EXCEPT !.state = "images_skipped", !.reference = "none",
                            !.expires = Never])}
    ELSE {Raises(f)}

-----------------------------------------------------------------------------
(* Retrieval, ranking and history *)

\* approve_and_fetch up to the call of the transport ...
BeginFetch(f) ==
    IF f.state \in {"images_approved", "images_skipped"}
    THEN {Returns([f EXCEPT !.state = "fetching"])} ELSE {Raises(f)}

\* ... and after it.
EndFetch(f) ==
    {Returns([f EXCEPT !.state = "attribute_review"]),
     Raises([f EXCEPT !.state = "failed"])}

\* confirm: the selections may not match the review.
Confirm(f) ==
    IF f.state = "attribute_review"
    THEN {Returns([f EXCEPT !.state = "confirmed"]), Raises(f)}
    ELSE {Raises(f)}

\* complete up to its progress(4) ...
BeginComplete(f) ==
    IF f.state = "confirmed"
    THEN {Returns([f EXCEPT !.state = "evaluating"]),
          Raises([f EXCEPT !.state = "failed"])}
    ELSE {Raises(f)}

\* ... and the snapshot for the history after it.
EndComplete(f) ==
    {Returns([f EXCEPT !.state = "history_pending"]),
     Raises([f EXCEPT !.state = "failed"])}

\* SqliteProvisionalHistoryRepository.save: a row with this completion key is
\* returned as it is, so the key has at most one.
SaveRow(rows) == IF rows = 0 THEN 1 ELSE rows

\* retry_history, also the last call of complete.  A save that fails may have
\* failed before or after its commit.
RetryHistory(f) ==
    LET written == [f EXCEPT !.saved = SaveRow(@)] IN
    IF f.state = "history_pending"
    THEN {Returns([written EXCEPT !.state = "completed"]),
          Raises(f), Raises(written)}
    ELSE {Raises(f)}
=============================================================================
