-------------------------- MODULE SearchSessionProofs --------------------------
(***************************************************************************)
(* Proofs about SearchSession for every set of intents and policies and    *)
(* every limit: no transition makes a snapshot that its validator refuses, *)
(* what is searched is what was approved, and a call that is over has      *)
(* settled its charge.                                                     *)
(***************************************************************************)
EXTENDS SearchSession, FiniteSetTheorems, SequenceTheorems, TLAPS

-----------------------------------------------------------------------------
(* The inductive invariant *)

States == {"draft", "intent_processing", "intent_review", "image_generating",
           "image_generation_failed", "image_review", "search_approval"}
              \cup Executing

Times  == Nat \cup {None}
Plans  == [intent : Intents \cup {0}, images : Nat, policy : Policies \cup {0},
           created : Times]
Grants == [plan : Plans, token : Nat, issued : Times, consumed : Times]
ImageStates == [mode : {"off", "on"}, attempts : Nat, active : Nat, failed : Nat,
                images : Nat, policy : Policies \cup {0}]
Progresses ==
    [received : Nat \cup {None}, normalized : Nat \cup {None},
     rejected : Nat \cup {None}, ranked : Nat \cup {None},
     outcome : {"none", "results", "empty"},
     stage : {"none", "product_search", "product_normalization", "ranking"}]
Snapshots ==
    [state : States, intent : Intents \cup {0}, query : Intents \cup {0},
     im : ImageStates, grant : Grants, updated : Nat, progress : Progresses]
Charges ==
    [operation : {"image_set", "counterfactual_images", "product_search"},
     binding : Intents \cup {0} \cup Plans, calls : Nat, policy : Policies,
     status : {"started", "succeeded", "failed"}, started : Nat]
CallStates ==
    [kind : {"none", "image_set", "comparisons", "search"}, charge : Nat, done : Nat]

TypeInv ==
    /\ session \in Snapshots /\ usage \in Seq(Charges)
    /\ review \in Plans /\ tokens \in Nat
    /\ call \in CallStates /\ (call.kind = "none") = (call = NoCall)
    /\ answer \in {"none", "failed", "raised", "results", "empty"}
    /\ clock \in Nat /\ setBack \in Nat
    /\ ended \subseteq DOMAIN usage

\* The charge that pays for what c stands for in a session with this query
\* and this policy.
PaidBy(c, query, policy) ==
    /\ c \in DOMAIN usage
    /\ usage[c].binding = query /\ usage[c].policy = policy

\* The images of a session, and those being made, are paid by reservations
\* that name its query plan and its policy.
ImagesInv ==
    LET im == session.im
    IN  /\ im.images # 0 => /\ PaidBy(im.images, session.query, im.policy)
                            /\ usage[im.images].status = "succeeded"
        /\ im.active # 0 => PaidBy(im.active, session.query, im.policy)

\* What the call that runs was started from is still so.
CallInv ==
    LET c == call.charge
    IN  /\ call.kind # "none" => c \in DOMAIN usage /\ usage[c].status = "started"
        /\ call.kind = "image_set" =>
              session.state = "image_generating" /\ session.im.active = c
        /\ call.kind = "comparisons" =>
              /\ session.state = "intent_review" /\ session.intent \in Ready
              /\ usage[c].binding = session.query
        /\ call.kind = "search" =>
              /\ session.state = "scrape_submitted"
              /\ session.grant.issued <= usage[c].started

\* The search that runs, or ran, has the plan that was reviewed.
ApprovedInv ==
    session.state \in Executing =>
        session.grant.plan = review /\ PlanMatches(session, review)

\* A clock that was never set back is behind nothing that is on record, every
\* call that is over is settled, and a search that is over has its answer.
SettledInv ==
    setBack = 0 =>
        /\ session.updated <= clock /\ session.grant.consumed <= clock
        /\ \A c \in DOMAIN usage : usage[c].started <= clock
        /\ \A c \in ended : usage[c].status # "started"
        /\ answer # "raised"
        /\ session.state \in Executing /\ call.kind = "none" =>
              /\ session.state \in {"search_completed", "search_failed"}
              /\ answer = OutcomeOf(session)

IInv ==
    TypeInv /\ ValidatorAgrees /\ ImagesInv /\ CallInv /\ ApprovedInv /\ SettledInv

-----------------------------------------------------------------------------
(* The transitions make valid snapshots *)

\* What a snapshot without images, a grant or progress has for them.
LEMMA NothingFacts ==
    /\ NoImages \in ImageStates /\ NoGrant \in Grants /\ NoProgress \in Progresses
    /\ NoPlan \in Plans /\ None \in Times /\ None \notin Nat
    /\ NoImages.mode = "off" /\ NoImages.images = 0 /\ NoImages.active = 0
    /\ NoGrant.consumed = None
BY DEF NoImages, NoGrant, NoProgress, NoPlan, None, ImageStates, Grants, Progresses,
       Plans, Times, Intents

\* The fields of a snapshot have their types.
LEMMA FieldFacts ==
    ASSUME NEW s \in Snapshots
    PROVE  /\ s.state \in States /\ s.intent \in Intents \cup {0}
           /\ s.query \in Intents \cup {0} /\ s.updated \in Nat
           /\ s.im \in ImageStates /\ s.grant \in Grants /\ s.progress \in Progresses
BY DEF Snapshots

\* The fields of what a snapshot says of its images have their types.
LEMMA ImageFields ==
    ASSUME NEW im \in ImageStates
    PROVE  /\ im.mode \in {"off", "on"} /\ im.attempts \in Nat /\ im.active \in Nat
           /\ im.failed \in Nat /\ im.images \in Nat /\ im.policy \in Policies \cup {0}
BY DEF ImageStates

\* What the validator says of a snapshot before the search, by its state.
LEMMA ValidBefore ==
    ASSUME NEW s \in Snapshots, ValidSnapshot(s), s.state \notin Executing
    PROVE  /\ s.progress = NoProgress
           /\ s.state # "search_approval" => s.grant = NoGrant
           /\ s.state \in {"draft", "intent_processing", "intent_review"} =>
                 s.im = NoImages
           /\ s.state \in {"draft", "intent_processing"} => s.intent = 0
           /\ s.state \notin {"draft", "intent_processing"} => s.intent # 0
           /\ s.intent = 0 => s.query = 0
           /\ s.intent # 0 /\ s.state # "intent_review" =>
                 s.intent \in Ready /\ s.query # 0
           /\ s.intent \in Ready => s.query # 0
<1> USE DEF ValidSnapshot
<1>1. s.progress = NoProgress
  BY DEF ProgressBound, Results
<1>2. s.state # "search_approval" => s.grant = NoGrant
  BY DEF GrantBound
<1>3. ASSUME s.state \in {"draft", "intent_processing", "intent_review"}
      PROVE  s.im = NoImages
  <2>1. ImagesBound(s) /\ s.im.mode \in {"off", "on"}
    BY FieldFacts, ImageFields
  <2>2. s.im.mode # "on"
    BY <1>3, <2>1 DEF ImagesBound, Executing
  <2>3. QED
    BY <2>1, <2>2 DEF ImagesBound
<1>4. s.intent \in Ready \cup Blocking \cup {0}
  BY FieldFacts DEF Intents
<1>5. QED
  BY <1>1, <1>2, <1>3, <1>4 DEF ReviewBound

\* A snapshot with no images, no grant and no progress is valid in the states
\* of the intent review, and at the approval when its intent is ready.
LEMMA PlainValid ==
    ASSUME NEW s \in Snapshots, s.im = NoImages, s.grant = NoGrant,
           s.progress = NoProgress,
           \/ /\ s.state \in {"draft", "intent_processing"}
              /\ s.intent = 0 /\ s.query = 0
           \/ /\ s.state = "intent_review" /\ s.intent \in Intents
              /\ s.query = Query(s.intent)
           \/ /\ s.state = "search_approval" /\ s.intent \in Ready /\ s.query # 0
    PROVE  ValidSnapshot(s)
<1>1. ReviewBound(s)
  BY SearchSessionAssumption DEF ReviewBound, Query, Intents
<1>2. ImagesBound(s) /\ GrantBound(s) /\ ProgressBound(s)
  BY NothingFacts DEF ImagesBound, GrantBound, ProgressBound, Executing, Results
<1>3. QED
  BY <1>1, <1>2 DEF ValidSnapshot

\* A snapshot whose images are made, failed or to be reviewed.
LEMMA ImagesValid ==
    ASSUME NEW s \in Snapshots, s.grant = NoGrant, s.progress = NoProgress,
           s.intent \in Ready, s.query # 0, s.im.mode = "on",
           s.im.attempts \in 1..MaxAttempts, s.im.policy # 0,
           \/ /\ s.state = "image_generating"
              /\ s.im.active # 0 /\ s.im.failed = 0 /\ s.im.images = 0
           \/ /\ s.state = "image_generation_failed"
              /\ s.im.active = 0 /\ s.im.failed # 0 /\ s.im.images = 0
           \/ /\ s.state \in {"image_review", "search_approval"}
              /\ s.im.active = 0 /\ s.im.failed = 0 /\ s.im.images # 0
    PROVE  ValidSnapshot(s)
<1>1. ReviewBound(s)
  BY SearchSessionAssumption DEF ReviewBound
<1>2. ImagesBound(s)
  BY DEF ImagesBound, Executing
<1>3. GrantBound(s) /\ ProgressBound(s)
  BY DEF GrantBound, ProgressBound, Executing, Results
<1>4. QED
  BY <1>1, <1>2, <1>3 DEF ValidSnapshot

\* What the validator says of a session with images.
LEMMA ValidImages ==
    ASSUME NEW s \in Snapshots, ValidSnapshot(s),
           s.state \in {"image_generating", "image_generation_failed", "image_review"}
    PROVE  /\ s.im.mode = "on" /\ s.im.attempts \in 1..MaxAttempts /\ s.im.policy # 0
           /\ s.state = "image_generating" =>
                 s.im.active # 0 /\ s.im.failed = 0 /\ s.im.images = 0
           /\ s.state = "image_generation_failed" =>
                 s.im.active = 0 /\ s.im.failed # 0 /\ s.im.images = 0
           /\ s.state = "image_review" =>
                 s.im.active = 0 /\ s.im.failed = 0 /\ s.im.images # 0
<1>1. ImagesBound(s) /\ s.im.mode \in {"off", "on"}
  BY FieldFacts, ImageFields DEF ValidSnapshot
<1>2. s.im.mode = "on"
  BY <1>1 DEF ImagesBound
<1>3. QED
  BY <1>1, <1>2 DEF ImagesBound, Executing

\* _advance takes a valid snapshot.
LEMMA AdvanceStep ==
    ASSUME NEW s, ValidSnapshot(s), Advance(s)
    PROVE  session' = s /\ refused' = refused
BY DEF Advance

-----------------------------------------------------------------------------
(* Between the calls *)

\* A transition of the owner, between provider calls and before the search.
LEMMA OwnerKeeps ==
    ASSUME IInv, call = NoCall, NEW s \in Snapshots, ValidSnapshot(s),
           s.state \notin Executing,
           s.updated = clock, s.grant.consumed = None,
           s.im.images # 0 => /\ PaidBy(s.im.images, s.query, s.im.policy)
                              /\ usage[s.im.images].status = "succeeded",
           s.im.active # 0 => PaidBy(s.im.active, s.query, s.im.policy),
           session' = s, refused' = refused, tokens' \in Nat,
           UNCHANGED <<usage, review, call, answer, clock, setBack, ended>>
    PROVE  IInv'
<1> USE DEF IInv
<1>1. TypeInv'
  BY DEF TypeInv
<1>2. ValidatorAgrees'
  BY DEF ValidatorAgrees
<1>3. ImagesInv'
  BY DEF ImagesInv, PaidBy
<1>4. CallInv'
  BY DEF CallInv, NoCall
<1>5. ApprovedInv'
  BY DEF ApprovedInv
<1>6. SettledInv'
  <2>1. clock \in Nat /\ None <= clock
    BY DEF TypeInv, None
  <2>2. QED
    BY <2>1 DEF SettledInv
<1>7. QED
  BY <1>1, <1>2, <1>3, <1>4, <1>5, <1>6

\* The session that the owner has, when the owner may change it.
LEMMA OwnerFacts ==
    ASSUME IInv
    PROVE  /\ session \in Snapshots /\ ValidSnapshot(session) /\ clock \in Nat
           /\ usage \in Seq(Charges) /\ tokens \in Nat /\ review \in Plans
           /\ (call.kind = "none") = (call = NoCall)
BY DEF IInv, TypeInv, ValidatorAgrees

\* create_search_session made a draft, and the intent of it is planned.
LEMMA IntentSteps ==
    ASSUME IInv,
           \/ StartIntentProcessing
           \/ \E i \in Intents : RecordIntentPlan(i) \/ ReplaceIntentPlan(i)
    PROVE  IInv'
<1>1. session \in Snapshots /\ ValidSnapshot(session) /\ clock \in Nat /\ tokens \in Nat
  BY OwnerFacts
<1>2. ASSUME NEW s \in Snapshots, ValidSnapshot(s), s.state \notin Executing,
             Free, Advance(s), s.im = NoImages, s.updated = clock, s.grant = NoGrant,
             UNCHANGED <<usage, owner, call, answer, clock, setBack, ended>>
      PROVE  IInv'
  <2>1. session' = s /\ refused' = refused
    BY <1>2, AdvanceStep
  <2>2. s.im.images = 0 /\ s.im.active = 0 /\ s.grant.consumed = None
    BY <1>2, NothingFacts
  <2>3. call = NoCall /\ tokens' \in Nat
        /\ UNCHANGED <<usage, review, call, answer, clock, setBack, ended>>
    BY <1>1, <1>2 DEF Free, owner
  <2>4. QED
    BY <1>2, <2>1, <2>2, <2>3, OwnerKeeps
<1>3. CASE StartIntentProcessing
  <2>1. PICK s : s = [session EXCEPT !.state = "intent_processing", !.updated = clock]
    OBVIOUS
  <2>2. session.state = "draft" /\ Advance(s) /\ Free
        /\ UNCHANGED <<usage, owner, call, answer, clock, setBack, ended>>
    BY <1>3, <2>1 DEF StartIntentProcessing, Prepared
  <2>3. /\ session.im = NoImages /\ session.grant = NoGrant /\ session.intent = 0
        /\ session.query = 0 /\ session.progress = NoProgress
    BY <1>1, <2>2, ValidBefore DEF Executing
  <2>4. s \in Snapshots
    BY <1>1, <2>1 DEF Snapshots, States
  <2>5. /\ s.state = "intent_processing" /\ s.updated = clock /\ s.im = NoImages
        /\ s.grant = NoGrant /\ s.progress = NoProgress /\ s.intent = 0 /\ s.query = 0
    BY <1>1, <2>1, <2>3 DEF Snapshots
  <2>6. ValidSnapshot(s) /\ s.state \notin Executing
    BY <2>4, <2>5, PlainValid DEF Executing
  <2>7. QED
    BY <1>2, <2>2, <2>4, <2>5, <2>6
<1>4. ASSUME NEW i \in Intents, RecordIntentPlan(i) \/ ReplaceIntentPlan(i)
      PROVE  IInv'
  <2>1. PICK s : s = IF RecordIntentPlan(i) THEN Reviewed(session, i)
                                            ELSE ReplacedIntent(session, i)
    OBVIOUS
  <2>2. /\ Advance(s) /\ Free
        /\ UNCHANGED <<usage, owner, call, answer, clock, setBack, ended>>
        /\ session.state \notin Executing
        /\ s = Reviewed(session, i) => session.state = "intent_processing"
                                         \/ s = ReplacedIntent(session, i)
        /\ s \in {Reviewed(session, i), ReplacedIntent(session, i)}
    BY <1>4, <2>1 DEF RecordIntentPlan, ReplaceIntentPlan, Prepared, Executing
  <2>3. /\ session.progress = NoProgress
        /\ session.state = "intent_processing" =>
              session.im = NoImages /\ session.grant = NoGrant
    BY <1>1, <2>2, ValidBefore
  <2>4. Query(i) \in Intents \cup {0}
    BY <1>4 DEF Query
  <2>5. s \in Snapshots
    BY <1>1, <1>4, <2>2, <2>4, NothingFacts
       DEF Reviewed, ReplacedIntent, Snapshots, States
  <2>6. /\ s.state = "intent_review" /\ s.updated = clock /\ s.im = NoImages
        /\ s.grant = NoGrant /\ s.progress = NoProgress
        /\ s.intent = i /\ s.query = Query(i)
    BY <1>1, <2>2, <2>3 DEF Reviewed, ReplacedIntent, Snapshots
  <2>7. ValidSnapshot(s) /\ s.state \notin Executing
    BY <1>4, <2>5, <2>6, PlainValid DEF Executing
  <2>8. QED
    BY <1>2, <2>2, <2>5, <2>6, <2>7
<1>5. QED
  BY <1>3, <1>4

\* An approval, or a discard, goes to the approval of the search without images.
LEMMA PlainApprovals ==
    ASSUME IInv, ApproveIntentOff \/ DiscardImages
    PROVE  IInv'
<1>1. session \in Snapshots /\ ValidSnapshot(session) /\ clock \in Nat /\ tokens \in Nat
  BY OwnerFacts
<1>2. PICK s : s = IF ApproveIntentOff THEN ToApproval(session)
                                       ELSE WithoutImages(session)
  OBVIOUS
<1>3. /\ Advance(s) /\ call = NoCall
      /\ UNCHANGED <<usage, review, tokens, call, answer, clock, setBack, ended>>
      /\ session.state \in {"intent_review", "image_review", "image_generation_failed"}
      /\ \/ s = ToApproval(session) /\ session.state = "intent_review"
                /\ session.intent \in Ready
         \/ s = WithoutImages(session) /\ session.state # "intent_review"
  BY <1>2 DEF ApproveIntentOff, DiscardImages, Free, Prepared, owner
<1>4. /\ session.progress = NoProgress /\ session.grant = NoGrant
      /\ session.intent \in Ready /\ session.query # 0
      /\ session.state = "intent_review" => session.im = NoImages
  BY <1>1, <1>3, ValidBefore DEF Executing
<1>5. s \in Snapshots
  BY <1>1, <1>3, NothingFacts DEF ToApproval, WithoutImages, Snapshots, States
<1>6. /\ s.state = "search_approval" /\ s.updated = clock /\ s.im = NoImages
      /\ s.grant = NoGrant /\ s.progress = NoProgress
      /\ s.intent = session.intent /\ s.query = session.query
  BY <1>1, <1>3, <1>4 DEF ToApproval, WithoutImages, Snapshots
<1>7. ValidSnapshot(s) /\ s.state \notin Executing
  BY <1>4, <1>5, <1>6, PlainValid DEF Executing
<1>8. session' = s /\ refused' = refused
  BY <1>3, <1>7, AdvanceStep
<1>9. s.im.images = 0 /\ s.im.active = 0 /\ s.grant.consumed = None
  BY <1>6, NothingFacts
<1>10. QED
  BY <1>1, <1>3, <1>5, <1>6, <1>7, <1>8, <1>9, OwnerKeeps

\* A reservation of the ledger has the types of one, and its policy is a policy.
LEMMA ChargeFacts ==
    ASSUME usage \in Seq(Charges), NEW c \in DOMAIN usage
    PROVE  /\ usage[c] \in Charges /\ c \in Nat /\ c # 0
           /\ usage[c].policy \in Policies /\ usage[c].policy # 0
           /\ usage[c].started \in Nat /\ usage[c].calls \in Nat
<1>1. usage[c] \in Charges /\ c \in Nat /\ c # 0
  <2>1. DOMAIN usage = 1..Len(usage) /\ Len(usage) \in Nat
    BY LenProperties
  <2>2. QED
    BY <2>1, ElementOfSeq
<1>2. QED
  BY <1>1, SearchSessionAssumption DEF Charges

\* A review of the intent, of the images or of a failure is approved into
\* another attempt: the session names the reservation that was checked.
LEMMA GenerateSteps ==
    ASSUME IInv, NEW c \in DOMAIN usage, ApproveIntentOn(c) \/ GenerateAgain(c)
    PROVE  IInv'
<1>1. /\ session \in Snapshots /\ ValidSnapshot(session) /\ clock \in Nat
      /\ tokens \in Nat /\ usage \in Seq(Charges)
  BY OwnerFacts
<1>2. PICK s : s = IF ApproveIntentOn(c) THEN Generating(session, c)
                                         ELSE GeneratingAgain(session, c)
  OBVIOUS
<1>3. /\ Advance(s) /\ call = NoCall /\ usage[c].binding = session.query
      /\ UNCHANGED <<usage, review, tokens, call, answer, clock, setBack, ended>>
      /\ \/ s = Generating(session, c) /\ session.state = "intent_review"
                /\ session.intent \in Ready
         \/ /\ s = GeneratingAgain(session, c)
            /\ session.state \in {"image_review", "image_generation_failed"}
            /\ session.im.attempts < MaxAttempts
            /\ usage[c].policy = session.im.policy
  BY <1>2 DEF ApproveIntentOn, GenerateAgain, ImageReservation, Free, Prepared, owner
<1>4. /\ session.progress = NoProgress /\ session.grant = NoGrant
      /\ session.intent \in Ready /\ session.query # 0
  BY <1>1, <1>3, ValidBefore DEF Executing
<1>5. /\ usage[c].policy \in Policies /\ usage[c].policy # 0 /\ c \in Nat /\ c # 0
      /\ MaxAttempts \in Nat \ {0}
  BY <1>1, ChargeFacts, SearchSessionAssumption
<1>6. /\ s.im \in ImageStates /\ s.im.mode = "on" /\ s.im.attempts \in 1..MaxAttempts
      /\ s.im.policy # 0 /\ s.im.active = c /\ s.im.failed = 0 /\ s.im.images = 0
      /\ s.im.policy = usage[c].policy
  <2>1. CASE s = Generating(session, c)
    <3>1. s.im = [NoImages EXCEPT !.mode = "on", !.attempts = 1, !.active = c,
                                  !.policy = usage[c].policy]
      BY <1>1, <2>1 DEF Generating, Snapshots
    <3>2. s.im = [mode |-> "on", attempts |-> 1, active |-> c, failed |-> 0,
                  images |-> 0, policy |-> usage[c].policy]
      BY <3>1 DEF NoImages
    <3>3. s.im.attempts = 1 /\ 1 \in Nat /\ 1 \in 1..MaxAttempts
      BY <1>5, <3>2
    <3>4. QED
      BY <1>5, <3>2, <3>3 DEF ImageStates
  <2>2. CASE s = GeneratingAgain(session, c) /\ s # Generating(session, c)
    <3>1. s.im = [session.im EXCEPT !.attempts = session.im.attempts + 1,
                                    !.active = c, !.failed = 0, !.images = 0]
      BY <1>1, <2>2 DEF GeneratingAgain, Snapshots
    <3>2. /\ session.im.mode = "on" /\ session.im.attempts \in 1..MaxAttempts
          /\ session.im.policy # 0 /\ session.im \in ImageStates
      BY <1>1, <1>3, <2>2, ValidImages, FieldFacts
    <3>3. PICK n : n = session.im.attempts + 1
      OBVIOUS
    <3>4. n \in Nat /\ n \in 1..MaxAttempts
      <4>1. session.im.attempts \in Nat /\ session.im.attempts < MaxAttempts
        BY <1>3, <2>2, <3>2, ImageFields
      <4>2. QED
        BY <1>5, <3>3, <4>1
    <3>5. s.im \in ImageStates /\ s.im.attempts = n /\ s.im.active = c
          /\ s.im.failed = 0 /\ s.im.images = 0 /\ s.im.mode = "on"
          /\ s.im.policy = session.im.policy
      <4>1. s.im = [mode |-> "on", attempts |-> n, active |-> c, failed |-> 0,
                    images |-> 0, policy |-> session.im.policy]
        BY <3>1, <3>2, <3>3 DEF ImageStates
      <4>2. session.im.policy \in Policies \cup {0}
        BY <3>2, ImageFields
      <4>3. QED
        BY <1>5, <3>4, <4>1, <4>2 DEF ImageStates
    <3>6. session.im.policy = usage[c].policy
      BY <1>3, <2>2
    <3>7. QED
      BY <1>5, <3>4, <3>5, <3>6
  <2>3. QED
    BY <1>3, <2>1, <2>2
<1>7. /\ s \in Snapshots
      /\ s.state = "image_generating" /\ s.updated = clock /\ s.grant = NoGrant
      /\ s.progress = NoProgress /\ s.intent = session.intent /\ s.query = session.query
  <2>1. s = [session EXCEPT !.state = "image_generating", !.updated = clock,
                            !.im = s.im]
    BY <1>1, <1>3 DEF Generating, GeneratingAgain, Snapshots
  <2>2. QED
    BY <1>1, <1>4, <1>6, <2>1 DEF Snapshots, States
<1>8. ValidSnapshot(s) /\ s.state \notin Executing
  BY <1>4, <1>5, <1>6, <1>7, ImagesValid DEF Executing
<1>9. session' = s /\ refused' = refused
  BY <1>3, <1>8, AdvanceStep
<1>10. PaidBy(s.im.active, s.query, s.im.policy)
  BY <1>3, <1>6, <1>7 DEF PaidBy
<1>11. s.grant.consumed = None /\ tokens' \in Nat
  BY <1>1, <1>3, <1>7, NothingFacts
<1>12. QED
  BY <1>3, <1>6, <1>7, <1>8, <1>9, <1>10, <1>11, OwnerKeeps

\* The images are approved: the session keeps them.
LEMMA ImageApproval ==
    ASSUME IInv, ApproveImageReview
    PROVE  IInv'
<1>1. /\ session \in Snapshots /\ ValidSnapshot(session) /\ clock \in Nat
      /\ tokens \in Nat /\ ImagesInv
  BY OwnerFacts DEF IInv
<1>2. PICK s : s = ToApproval(session)
  OBVIOUS
<1>3. /\ Advance(s) /\ call = NoCall /\ session.state = "image_review"
      /\ UNCHANGED <<usage, review, tokens, call, answer, clock, setBack, ended>>
  BY <1>2 DEF ApproveImageReview, Free, Prepared, owner
<1>4. /\ session.progress = NoProgress /\ session.grant = NoGrant
      /\ session.intent \in Ready /\ session.query # 0
  BY <1>1, <1>3, ValidBefore DEF Executing
<1>5. /\ s \in Snapshots /\ s.state = "search_approval" /\ s.updated = clock
      /\ s.im = session.im /\ s.grant = NoGrant /\ s.progress = NoProgress
      /\ s.intent = session.intent /\ s.query = session.query
  BY <1>1, <1>2, <1>4 DEF ToApproval, Snapshots, States
<1>6. /\ session.im.mode = "on" /\ session.im.attempts \in 1..MaxAttempts
      /\ session.im.policy # 0
      /\ session.im.active = 0 /\ session.im.failed = 0 /\ session.im.images # 0
  BY <1>1, <1>3, ValidImages
<1>7. ValidSnapshot(s) /\ s.state \notin Executing
  BY <1>4, <1>5, <1>6, ImagesValid DEF Executing
<1>8. session' = s /\ refused' = refused
  BY <1>3, <1>7, AdvanceStep
<1>9. /\ PaidBy(s.im.images, s.query, s.im.policy)
      /\ usage[s.im.images].status = "succeeded" /\ s.im.active = 0
  BY <1>1, <1>5, <1>6 DEF ImagesInv
<1>10. s.grant.consumed = None /\ tokens' \in Nat
  BY <1>1, <1>3, <1>5, NothingFacts
<1>11. QED
  BY <1>3, <1>5, <1>7, <1>8, <1>9, <1>10, OwnerKeeps

\* The approval names the plan that was reviewed.
LEMMA IssueApproval ==
    ASSUME IInv, IssueSearchApproval
    PROVE  IInv'
<1>1. /\ session \in Snapshots /\ ValidSnapshot(session) /\ clock \in Nat
      /\ tokens \in Nat /\ review \in Plans /\ ImagesInv
  BY OwnerFacts DEF IInv
<1>2. PICK s : s = WithGrant(session, review)
  OBVIOUS
<1>3. /\ Advance(s) /\ call = NoCall /\ session.state = "search_approval"
      /\ session.grant = NoGrant /\ clock < Expires(review) /\ tokens' = tokens + 1
      /\ UNCHANGED <<usage, review, call, answer, clock, setBack, ended>>
  BY <1>2 DEF IssueSearchApproval, Free, Prepared
<1>4. PICK g : g = [plan |-> review, token |-> tokens + 1, issued |-> clock,
                    consumed |-> None]
  OBVIOUS
<1>5. g \in Grants /\ g.consumed = None /\ g.issued = clock /\ g.plan = review
  BY <1>1, <1>4, NothingFacts DEF Grants, Times
<1>6. s = [session EXCEPT !.updated = clock, !.grant = g]
  BY <1>2, <1>4 DEF WithGrant
<1>7. /\ s \in Snapshots /\ s.state = session.state /\ s.updated = clock
      /\ s.im = session.im /\ s.grant = g /\ s.progress = session.progress
      /\ s.intent = session.intent /\ s.query = session.query
  BY <1>1, <1>5, <1>6 DEF Snapshots
<1>8. ValidSnapshot(s) /\ s.state \notin Executing
  <2>1. ReviewBound(s) /\ ImagesBound(s)
    BY <1>1, <1>7 DEF ValidSnapshot, ReviewBound, ImagesBound
  <2>2. GrantBound(s)
    BY <1>3, <1>5, <1>7 DEF GrantBound, Executing
  <2>3. ProgressBound(s)
    BY <1>1, <1>3, <1>7 DEF ValidSnapshot, ProgressBound, Results, Executing
  <2>4. QED
    BY <1>3, <1>7, <2>1, <2>2, <2>3 DEF ValidSnapshot, Executing
<1>9. session' = s /\ refused' = refused
  BY <1>3, <1>8, AdvanceStep
<1>10. QED
  BY <1>1, <1>3, <1>5, <1>7, <1>8, <1>9, OwnerKeeps DEF ImagesInv

-----------------------------------------------------------------------------
(* Reservations, the start of a call, and the clock *)

\* A reservation is added to the ledger and changes none of the others.
LEMMA Reserved ==
    ASSUME IInv, NEW r \in Charges, usage' = Append(usage, r), r.started = clock,
           UNCHANGED <<session, review, tokens, call, answer, clock, setBack,
                       refused, ended>>
    PROVE  IInv'
<1> USE DEF IInv
<1>1. usage \in Seq(Charges)
  BY DEF TypeInv
<1>2. /\ usage' \in Seq(Charges) /\ Len(usage') = Len(usage) + 1
      /\ \A c \in 1..Len(usage) : usage'[c] = usage[c]
      /\ usage'[Len(usage) + 1] = r
  BY <1>1, AppendProperties
<1>3. /\ DOMAIN usage = 1..Len(usage) /\ Len(usage) \in Nat
      /\ DOMAIN usage' = 1..(Len(usage) + 1)
  BY <1>1, <1>2, LenProperties
<1>4. /\ DOMAIN usage \subseteq DOMAIN usage'
      /\ \A c \in DOMAIN usage : usage'[c] = usage[c]
      /\ \A c \in DOMAIN usage' : c \in DOMAIN usage \/ usage'[c] = r
  BY <1>2, <1>3
<1>5. TypeInv'
  BY <1>2, <1>4 DEF TypeInv
<1>6. ValidatorAgrees'
  BY DEF ValidatorAgrees
<1>7. ImagesInv'
  BY <1>4 DEF ImagesInv, PaidBy
<1>8. CallInv'
  BY <1>4 DEF CallInv
<1>9. ApprovedInv'
  BY DEF ApprovedInv
<1>10. SettledInv'
  <2>1. ended \subseteq DOMAIN usage /\ clock \in Nat
    BY DEF TypeInv
  <2>2. QED
    BY <1>4, <2>1 DEF SettledInv
<1>11. QED
  BY <1>5, <1>6, <1>7, <1>8, <1>9, <1>10

\* _reserve_usage and _start_usage, for the images and for the search.
LEMMA ReserveSteps ==
    ASSUME IInv,
           \/ \E p \in Policies : ReserveSearch(p)
           \/ \E p \in Policies :
                ReserveImages("image_set",
                              {"intent_review", "image_review", "image_generation_failed"},
                              SetSize, p)
           \/ \E p \in Policies, n \in 1..MaxConditions :
                ReserveImages("counterfactual_images", {"intent_review"}, n, p)
    PROVE  IInv'
<1>1. /\ session.query \in Intents \cup {0} /\ review \in Plans /\ clock \in Nat
  BY OwnerFacts, FieldFacts
<1>2. PICK operation \in {"image_set", "counterfactual_images", "product_search"},
           binding \in Intents \cup {0} \cup Plans, calls \in Nat, p \in Policies :
        /\ Reserve(operation, binding, calls, p)
        /\ UNCHANGED <<session, owner, call, answer, clock, setBack, refused, ended>>
  <2>1. CASE \E p \in Policies : ReserveSearch(p)
    BY <1>1, <2>1 DEF ReserveSearch
  <2>2. CASE \E p \in Policies :
               ReserveImages("image_set",
                             {"intent_review", "image_review", "image_generation_failed"},
                             SetSize, p)
    <3>1. SetSize \in Nat
      BY SearchSessionAssumption
    <3>2. QED
      BY <1>1, <2>2, <3>1 DEF ReserveImages
  <2>3. CASE \E p \in Policies, n \in 1..MaxConditions :
               ReserveImages("counterfactual_images", {"intent_review"}, n, p)
    <3>1. \A n \in 1..MaxConditions : n \in Nat
      OBVIOUS
    <3>2. QED
      BY <1>1, <2>3, <3>1 DEF ReserveImages
  <2>4. QED
    BY <2>1, <2>2, <2>3
<1>3. PICK r : r = [operation |-> operation, binding |-> binding, calls |-> calls,
                    policy |-> p, status |-> "started", started |-> clock]
  OBVIOUS
<1>4. r \in Charges /\ r.started = clock
  BY <1>1, <1>2, <1>3 DEF Charges
<1>5. usage' = Append(usage, r)
  BY <1>2, <1>3 DEF Reserve
<1>6. QED
  BY <1>2, <1>4, <1>5, Reserved DEF owner

\* _build_search_review: a plan of the session's intent and images.
LEMMA ReviewStep ==
    ASSUME IInv, NEW p \in Policies, BuildSearchReview(p)
    PROVE  IInv'
<1> USE DEF IInv
<1>1. session \in Snapshots /\ session.state = "search_approval"
  BY DEF BuildSearchReview, TypeInv
<1>2. review' \in Plans
  <2>1. /\ session.intent \in Intents \cup {0} /\ session.im.images \in Nat
        /\ session.updated \in Nat
    BY <1>1, FieldFacts, ImageFields
  <2>2. QED
    BY <2>1 DEF BuildSearchReview, PlanOf, Plans, Times
<1>3. UNCHANGED <<session, usage, tokens, call, answer, clock, setBack, refused, ended>>
  BY DEF BuildSearchReview
<1>4. TypeInv' /\ ValidatorAgrees'
  BY <1>2, <1>3 DEF TypeInv, ValidatorAgrees
<1>5. ImagesInv' /\ CallInv'
  BY <1>3 DEF ImagesInv, PaidBy, CallInv
<1>6. ApprovedInv'
  BY <1>1, <1>3 DEF ApprovedInv, Executing
<1>7. SettledInv'
  BY <1>3 DEF SettledInv
<1>8. QED
  BY <1>4, <1>5, <1>6, <1>7

\* A call that runs, from the session it was started from.
LEMMA CallKeeps ==
    ASSUME IInv, NEW m \in CallStates, m.kind # "none",
           m.charge \in DOMAIN usage, usage[m.charge].status = "started",
           m.kind = "image_set" =>
              session.state = "image_generating" /\ session.im.active = m.charge,
           m.kind = "comparisons" =>
              /\ session.state = "intent_review" /\ session.intent \in Ready
              /\ usage[m.charge].binding = session.query,
           m.kind = "search" =>
              /\ session.state = "scrape_submitted"
              /\ session.grant.issued <= usage[m.charge].started,
           call' = m,
           UNCHANGED <<session, usage, review, tokens, answer, clock, setBack,
                       refused, ended>>
    PROVE  IInv'
<1> USE DEF IInv
<1>1. NoCall.kind = "none"
  BY DEF NoCall
<1>2. TypeInv'
  BY <1>1 DEF TypeInv
<1>3. ValidatorAgrees' /\ ApprovedInv'
  BY DEF ValidatorAgrees, ApprovedInv
<1>4. ImagesInv'
  BY DEF ImagesInv, PaidBy
<1>5. CallInv'
  BY DEF CallInv
<1>6. SettledInv'
  BY DEF SettledInv
<1>7. QED
  BY <1>2, <1>3, <1>4, <1>5, <1>6

\* The image providers' clients start their call, and each call goes on.
LEMMA CallSteps ==
    ASSUME IInv,
           \/ StartImageSet \/ ImageMade \/ Poll
           \/ \E c \in DOMAIN usage : StartComparisons(c)
    PROVE  IInv'
<1>1. /\ session \in Snapshots /\ ValidSnapshot(session) /\ usage \in Seq(Charges)
      /\ call \in CallStates /\ CallInv /\ ImagesInv
  BY OwnerFacts DEF IInv, TypeInv
<1>2. CASE StartImageSet
  <2>1. PICK m : m = [kind |-> "image_set", charge |-> session.im.active, done |-> 0]
    OBVIOUS
  <2>2. /\ call' = m /\ session.state = "image_generating"
        /\ usage[session.im.active].status = "started"
        /\ UNCHANGED <<session, usage, review, tokens, answer, clock, setBack,
                       refused, ended>>
    BY <1>2, <2>1 DEF StartImageSet, owner
  <2>3. session.im.active # 0 /\ session.im.active \in Nat
    BY <1>1, <2>2, ValidImages, FieldFacts, ImageFields
  <2>4. session.im.active \in DOMAIN usage
    BY <1>1, <2>3 DEF ImagesInv, PaidBy
  <2>5. /\ m \in CallStates /\ m.kind = "image_set" /\ m.charge = session.im.active
    BY <2>1, <2>3 DEF CallStates
  <2>6. QED
    BY <2>2, <2>4, <2>5, CallKeeps
<1>3. ASSUME NEW c \in DOMAIN usage, StartComparisons(c) PROVE IInv'
  <2>1. PICK m : m = [kind |-> "comparisons", charge |-> c, done |-> 0]
    OBVIOUS
  <2>2. /\ call' = m /\ session.state = "intent_review" /\ session.intent \in Ready
        /\ usage[c].status = "started" /\ usage[c].binding = session.query
        /\ UNCHANGED <<session, usage, review, tokens, answer, clock, setBack,
                       refused, ended>>
    BY <1>3, <2>1 DEF StartComparisons, owner
  <2>3. c \in Nat
    BY <1>1, ChargeFacts
  <2>4. m \in CallStates /\ m.kind = "comparisons" /\ m.charge = c
    BY <2>1, <2>3 DEF CallStates
  <2>5. QED
    BY <2>2, <2>4, CallKeeps
<1>4. CASE ImageMade \/ Poll
  <2>1. PICK m : m = [call EXCEPT !.done = call.done + 1]
    OBVIOUS
  <2>2. /\ call' = m /\ call.kind # "none"
        /\ UNCHANGED <<session, usage, review, tokens, answer, clock, setBack,
                       refused, ended>>
    BY <1>4, <2>1 DEF ImageMade, Poll, owner
  <2>3. m \in CallStates /\ m.kind = call.kind /\ m.charge = call.charge
    BY <1>1, <2>1 DEF CallStates
  <2>4. QED
    BY <1>1, <2>2, <2>3, CallKeeps DEF CallInv
<1>5. QED
  BY <1>2, <1>3, <1>4

\* Time passes, or the clock is set back.
LEMMA ClockSteps ==
    ASSUME IInv, Tick \/ SetBack
    PROVE  IInv'
<1> USE DEF IInv
<1>1. /\ UNCHANGED <<session, usage, review, tokens, call, answer, refused, ended>>
  BY DEF Tick, SetBack, owner
<1>2. /\ clock \in Nat /\ setBack \in Nat /\ session \in Snapshots
      /\ usage \in Seq(Charges)
  BY DEF TypeInv
<1>3. /\ clock' \in Nat /\ setBack' \in Nat
      /\ setBack' = 0 => setBack = 0 /\ clock' = clock + 1
  BY <1>2 DEF Tick, SetBack
<1>4. TypeInv' /\ ValidatorAgrees' /\ ApprovedInv'
  BY <1>1, <1>3 DEF TypeInv, ValidatorAgrees, ApprovedInv
<1>5. ImagesInv' /\ CallInv'
  BY <1>1 DEF ImagesInv, PaidBy, CallInv
<1>6. SettledInv'
  <2>1. session.updated \in Nat /\ session.grant.consumed \in Nat \cup {None}
    BY <1>2 DEF Snapshots, Grants, Times
  <2>2. None = -1
    BY DEF None
  <2>3. \A c \in DOMAIN usage : usage[c].started \in Nat
    BY <1>2, ChargeFacts
  <2>4. QED
    BY <1>1, <1>2, <1>3, <2>1, <2>2, <2>3 DEF SettledInv
<1>7. QED
  BY <1>4, <1>5, <1>6

-----------------------------------------------------------------------------
(* The end of a call *)

\* ledger.finish changes the status of one reservation, and of no other; it is
\* refused only by a clock that is behind the reservation's start.
LEMMA FinishFacts ==
    ASSUME usage \in Seq(Charges), NEW c \in DOMAIN usage, NEW success \in BOOLEAN,
           Finish(c, success)
    PROVE  /\ usage' \in Seq(Charges) /\ DOMAIN usage' = DOMAIN usage
           /\ \A d \in DOMAIN usage :
                 /\ usage'[d].binding = usage[d].binding
                 /\ usage'[d].policy = usage[d].policy
                 /\ usage'[d].started = usage[d].started
                 /\ d # c => usage'[d] = usage[d]
           /\ Closes(c) => usage'[c].status = IF success THEN "succeeded" ELSE "failed"
<1>1. PICK st : st = IF success THEN "succeeded" ELSE "failed"
  OBVIOUS
<1>2. /\ DOMAIN usage = 1..Len(usage) /\ Len(usage) \in Nat
      /\ \A d \in DOMAIN usage : usage[d] \in Charges
  BY LenProperties, ElementOfSeq
<1>3. PICK r : r = [usage[c] EXCEPT !.status = st]
  OBVIOUS
<1>4. /\ r \in Charges /\ r.status = st /\ r.binding = usage[c].binding
      /\ r.policy = usage[c].policy /\ r.started = usage[c].started
  BY <1>1, <1>2, <1>3 DEF Charges
<1>5. CASE Closes(c)
  <2>1. usage' = [usage EXCEPT ![c] = r]
    BY <1>1, <1>3, <1>5 DEF Finish
  <2>2. usage' \in Seq(Charges) /\ Len(usage') = Len(usage)
    BY <1>2, <1>4, <2>1, ExceptSeq
  <2>3. /\ DOMAIN usage' = DOMAIN usage /\ usage'[c] = r
        /\ \A d \in DOMAIN usage : d # c => usage'[d] = usage[d]
    BY <2>1
  <2>4. QED
    BY <1>1, <1>4, <2>2, <2>3
<1>6. CASE ~Closes(c)
  <2>1. usage' = usage
    BY <1>6 DEF Finish
  <2>2. QED
    BY <1>6, <2>1
<1>7. QED
  BY <1>5, <1>6

\* A call that is over: the session it leaves, and the ledger.
LEMMA CallEnds ==
    ASSUME IInv, NEW c \in DOMAIN usage, usage[c].status = "started",
           NEW success \in BOOLEAN, Finish(c, success),
           NEW s \in Snapshots, ValidSnapshot(s), session' = s, refused' = refused,
           s.im.images # 0 =>
              /\ PaidBy(s.im.images, s.query, s.im.policy)
              /\ \/ usage[s.im.images].status = "succeeded"
                 \/ s.im.images = c /\ success /\ Closes(c),
           s.im.active # 0 => PaidBy(s.im.active, s.query, s.im.policy),
           s.state \in Executing => s.grant.plan = review /\ PlanMatches(s, review),
           NEW a \in {"none", "failed", "raised", "results", "empty"}, answer' = a,
           setBack = 0 =>
              /\ s.updated <= clock /\ s.grant.consumed <= clock /\ a # "raised"
              /\ s.state \in Executing =>
                    /\ s.state \in {"search_completed", "search_failed"}
                    /\ a = OutcomeOf(s),
           call' = NoCall, ended' = ended \cup {c},
           UNCHANGED <<review, tokens, clock, setBack>>
    PROVE  IInv'
<1> USE DEF IInv
<1>1. usage \in Seq(Charges) /\ ended \subseteq DOMAIN usage
  BY DEF TypeInv
<1>2. /\ usage' \in Seq(Charges) /\ DOMAIN usage' = DOMAIN usage
      /\ \A d \in DOMAIN usage : /\ usage'[d].binding = usage[d].binding
                                 /\ usage'[d].policy = usage[d].policy
                                 /\ usage'[d].started = usage[d].started
                                 /\ d # c => usage'[d] = usage[d]
  BY <1>1, FinishFacts
<1>3. Closes(c) => usage'[c].status = IF success THEN "succeeded" ELSE "failed"
  BY <1>1, FinishFacts
<1>4. NoCall \in CallStates /\ NoCall.kind = "none"
  BY DEF NoCall, CallStates
<1>5. TypeInv'
  BY <1>1, <1>2, <1>4 DEF TypeInv
<1>6. ValidatorAgrees'
  BY DEF ValidatorAgrees
<1>7. ImagesInv'
  <2>1. s.im.images # 0 => usage'[s.im.images].status = "succeeded"
    BY <1>2, <1>3 DEF PaidBy
  <2>2. QED
    BY <1>2, <2>1 DEF ImagesInv, PaidBy
<1>8. CallInv'
  BY <1>4 DEF CallInv
<1>9. ApprovedInv'
  BY DEF ApprovedInv
<1>10. SettledInv'
  <2>1. setBack = 0 => Closes(c)
    BY DEF SettledInv, Closes
  <2>2. setBack = 0 => usage'[c].status # "started"
    BY <1>3, <2>1
  <2>3. setBack = 0 => \A d \in ended' : usage'[d].status # "started"
    BY <1>1, <1>2, <2>2 DEF SettledInv
  <2>4. setBack = 0 => \A d \in DOMAIN usage' : usage'[d].started <= clock
    BY <1>2 DEF SettledInv
  <2>5. QED
    BY <2>3, <2>4 DEF SettledInv
<1>11. QED
  BY <1>5, <1>6, <1>7, <1>8, <1>9, <1>10

\* The reservation of a search that is refused, or of an image call that
\* leaves the session alone, is all that ends.
LEMMA CallEndsAlone ==
    ASSUME IInv, NEW c \in DOMAIN usage, usage[c].status = "started",
           NEW success \in BOOLEAN, Finish(c, success),
           call.kind = "none" \/ session.state \notin Executing,
           call' = NoCall, ended' = ended \cup {c},
           UNCHANGED <<session, refused, answer, review, tokens, clock, setBack>>
    PROVE  IInv'
<1>1. /\ session \in Snapshots /\ ValidSnapshot(session)
      /\ answer \in {"none", "failed", "raised", "results", "empty"}
      /\ ImagesInv /\ ApprovedInv /\ SettledInv
  BY DEF IInv, TypeInv, ValidatorAgrees
<1>2. PICK s \in Snapshots : s = session
  BY <1>1
<1>3. PICK a \in {"none", "failed", "raised", "results", "empty"} : a = answer
  BY <1>1
<1>4. /\ s.im.images # 0 => /\ PaidBy(s.im.images, s.query, s.im.policy)
                            /\ usage[s.im.images].status = "succeeded"
      /\ s.im.active # 0 => PaidBy(s.im.active, s.query, s.im.policy)
  BY <1>1, <1>2 DEF ImagesInv
<1>5. s.state \in Executing => s.grant.plan = review /\ PlanMatches(s, review)
  BY <1>1, <1>2 DEF ApprovedInv
<1>6. setBack = 0 => /\ s.updated <= clock /\ s.grant.consumed <= clock /\ a # "raised"
                     /\ s.state \in Executing =>
                           /\ s.state \in {"search_completed", "search_failed"}
                           /\ a = OutcomeOf(s)
  BY <1>1, <1>2, <1>3 DEF SettledInv
<1>7. QED
  BY <1>1, <1>2, <1>3, <1>4, <1>5, <1>6, CallEnds

\* A check of _authorize_approved_search fails.
LEMMA RefusedSearch ==
    ASSUME IInv, NEW c \in DOMAIN usage, AuthorizeFails(c)
    PROVE  IInv'
<1>1. /\ usage[c].status = "started" /\ Finish(c, FALSE) /\ call = NoCall
      /\ call' = NoCall /\ ended' = ended \cup {c}
      /\ UNCHANGED <<session, refused, answer, review, tokens, clock, setBack>>
  BY DEF AuthorizeFails, Free, owner
<1>2. call.kind = "none"
  BY <1>1 DEF NoCall
<1>3. QED
  BY <1>1, <1>2, CallEndsAlone

\* Images that are made, or fail, while the session waits for them: the
\* session records the reservation they were paid by.
LEMMA ImageCallEnds ==
    ASSUME IInv, ImageFails \/ ImageSetDone \/ ComparisonsDone
    PROVE  IInv'
<1> DEFINE c == call.charge
<1>1. /\ session \in Snapshots /\ ValidSnapshot(session) /\ usage \in Seq(Charges)
      /\ clock \in Nat /\ CallInv /\ ImagesInv /\ SettledInv
      /\ answer \in {"none", "failed", "raised", "results", "empty"}
  BY OwnerFacts DEF IInv, TypeInv
<1>2. /\ call.kind \in {"image_set", "comparisons"}
      /\ call' = NoCall /\ ended' = ended \cup {c}
      /\ UNCHANGED <<answer, review, tokens, clock, setBack>>
  BY DEF ImageFails, ImageSetDone, ComparisonsDone, Over, owner
<1>3. /\ c \in DOMAIN usage /\ usage[c].status = "started" /\ c \in Nat /\ c # 0
      /\ usage[c].policy \in Policies /\ usage[c].policy # 0
  BY <1>1, <1>2, ChargeFacts DEF CallInv
<1>4. /\ session.state \in {"image_generating", "intent_review"}
      /\ call.kind = "image_set" => session.state = "image_generating"
      /\ call.kind = "comparisons" => session.state = "intent_review"
  BY <1>1, <1>2 DEF CallInv
<1>5. /\ session.progress = NoProgress /\ session.grant = NoGrant
      /\ session.intent \in Ready /\ session.query # 0
  BY <1>1, <1>2, <1>4, ValidBefore DEF Executing, CallInv
<1>6. ASSUME NEW success \in BOOLEAN, Finish(c, success),
             UNCHANGED <<session, refused>>
      PROVE  IInv'
  BY <1>2, <1>3, <1>4, <1>6, CallEndsAlone DEF Executing
<1>7. ASSUME NEW success \in BOOLEAN, Finish(c, success), Closes(c),
             NEW s \in Snapshots, Advance(s), s.updated = clock,
             s.grant = NoGrant, s.progress = NoProgress,
             s.intent = session.intent, s.query = session.query,
             s.im.mode = "on", s.im.attempts \in 1..MaxAttempts,
             s.im.policy = usage[c].policy, usage[c].binding = session.query,
             s.im.active = 0,
             \/ /\ s.state = "image_generation_failed"
                /\ s.im.failed # 0 /\ s.im.images = 0
             \/ /\ s.state = "image_review" /\ success
                /\ s.im.failed = 0 /\ s.im.images = c
      PROVE  IInv'
  <2>1. ValidSnapshot(s) /\ s.state \notin Executing
    BY <1>3, <1>5, <1>7, ImagesValid DEF Executing
  <2>2. session' = s /\ refused' = refused
    BY <1>7, <2>1, AdvanceStep
  <2>3. s.im.images # 0 => PaidBy(s.im.images, s.query, s.im.policy)
                             /\ s.im.images = c /\ success /\ Closes(c)
    BY <1>3, <1>7 DEF PaidBy
  <2>4. s.updated <= clock /\ s.grant.consumed <= clock
    BY <1>1, <1>7, NothingFacts DEF None
  <2>5. PICK a \in {"none", "failed", "raised", "results", "empty"} : a = answer
    BY <1>1
  <2>6. setBack = 0 => a # "raised"
    BY <1>1, <2>5 DEF SettledInv
  <2>7. QED
    BY <1>2, <1>3, <1>7, <2>1, <2>2, <2>3, <2>4, <2>5, <2>6, CallEnds
<1>8. ASSUME call.kind = "image_set"
      PROVE  /\ session.im \in ImageStates /\ session.im.mode = "on"
             /\ session.im.attempts \in 1..MaxAttempts
             /\ session.im.policy = usage[c].policy
             /\ usage[c].binding = session.query /\ session.im.active = c
  <2>1. /\ session.im \in ImageStates /\ session.im.mode = "on"
        /\ session.im.attempts \in 1..MaxAttempts
    BY <1>1, <1>4, <1>8, ValidImages, FieldFacts
  <2>2. session.im.active = c
    BY <1>1, <1>8 DEF CallInv
  <2>3. QED
    BY <1>1, <1>3, <2>1, <2>2 DEF ImagesInv, PaidBy
<1>9. CASE ImageFails
  <2>1. Finish(c, FALSE)
    BY <1>9 DEF ImageFails
  <2>2. CASE call.kind = "image_set" /\ Closes(c) /\ clock >= session.updated
    <3>1. PICK s : s = WithFailure(session, c)
      OBVIOUS
    <3>2. Advance(s)
      BY <1>9, <2>2, <3>1 DEF ImageFails
    <3>3. PICK im : im = [session.im EXCEPT !.active = 0, !.failed = c, !.images = 0]
      OBVIOUS
    <3>4. /\ im \in ImageStates /\ im.mode = "on" /\ im.attempts \in 1..MaxAttempts
          /\ im.policy = usage[c].policy /\ im.active = 0 /\ im.failed = c
          /\ im.images = 0
      BY <1>3, <1>8, <2>2, <3>3 DEF ImageStates
    <3>5. s = [session EXCEPT !.state = "image_generation_failed", !.updated = clock,
                              !.im = im]
      BY <1>1, <3>1, <3>3 DEF WithFailure, Snapshots
    <3>6. /\ s \in Snapshots /\ s.state = "image_generation_failed"
          /\ s.updated = clock /\ s.im = im /\ s.grant = NoGrant
          /\ s.progress = NoProgress /\ s.intent = session.intent
          /\ s.query = session.query
      BY <1>1, <1>5, <3>4, <3>5 DEF Snapshots, States
    <3>7. QED
      BY <1>3, <1>7, <1>8, <2>1, <2>2, <3>2, <3>4, <3>6
  <2>3. CASE ~(call.kind = "image_set" /\ Closes(c) /\ clock >= session.updated)
    BY <1>6, <1>9, <2>1, <2>3 DEF ImageFails
  <2>4. QED
    BY <2>2, <2>3
<1>10. CASE ImageSetDone
  <2>1. CASE Closes(c) /\ clock >= session.updated
    <3>1. PICK s : s = WithImages(session, c)
      OBVIOUS
    <3>2. Advance(s) /\ Finish(c, TRUE) /\ call.kind = "image_set"
      BY <1>10, <2>1, <3>1 DEF ImageSetDone
    <3>3. PICK im : im = [session.im EXCEPT !.active = 0, !.failed = 0, !.images = c]
      OBVIOUS
    <3>4. /\ im \in ImageStates /\ im.mode = "on" /\ im.attempts \in 1..MaxAttempts
          /\ im.policy = usage[c].policy /\ im.active = 0 /\ im.failed = 0
          /\ im.images = c
      BY <1>3, <1>8, <3>2, <3>3 DEF ImageStates
    <3>5. s = [session EXCEPT !.state = "image_review", !.updated = clock, !.im = im]
      BY <1>1, <3>1, <3>3 DEF WithImages, Snapshots
    <3>6. /\ s \in Snapshots /\ s.state = "image_review"
          /\ s.updated = clock /\ s.im = im /\ s.grant = NoGrant
          /\ s.progress = NoProgress /\ s.intent = session.intent
          /\ s.query = session.query
      BY <1>1, <1>5, <3>4, <3>5 DEF Snapshots, States
    <3>7. QED
      BY <1>3, <1>7, <1>8, <2>1, <3>2, <3>4, <3>6
  <2>2. CASE ~(Closes(c) /\ clock >= session.updated)
    BY <1>6, <1>10, <2>2 DEF ImageSetDone
  <2>3. QED
    BY <2>1, <2>2
<1>11. CASE ComparisonsDone
  <2>1. Finish(c, TRUE) /\ call.kind = "comparisons"
    BY <1>11 DEF ComparisonsDone
  <2>2. CASE /\ Closes(c) /\ clock >= session.updated
             /\ usage[c].calls \in 1..MaxConditions
             /\ usage[c].started >= session.updated
    <3>1. PICK s : s = WithComparisons(session, c)
      OBVIOUS
    <3>2. Advance(s)
      BY <1>11, <2>2, <3>1 DEF ComparisonsDone
    <3>3. PICK im : im = [NoImages EXCEPT !.mode = "on", !.attempts = 1,
                                          !.policy = usage[c].policy, !.images = c]
      OBVIOUS
    <3>4. /\ im \in ImageStates /\ im.mode = "on" /\ im.attempts \in 1..MaxAttempts
          /\ im.policy = usage[c].policy /\ im.active = 0 /\ im.failed = 0
          /\ im.images = c
      <4>1. im = [mode |-> "on", attempts |-> 1, active |-> 0, failed |-> 0,
                  images |-> c, policy |-> usage[c].policy]
        BY <3>3 DEF NoImages
      <4>2. 1 \in Nat /\ 1 \in 1..MaxAttempts
        BY SearchSessionAssumption
      <4>3. QED
        BY <1>3, <4>1, <4>2 DEF ImageStates
    <3>5. s = [session EXCEPT !.state = "image_review", !.updated = clock, !.im = im]
      BY <1>1, <3>1, <3>3 DEF WithComparisons, Snapshots
    <3>6. /\ s \in Snapshots /\ s.state = "image_review"
          /\ s.updated = clock /\ s.im = im /\ s.grant = NoGrant
          /\ s.progress = NoProgress /\ s.intent = session.intent
          /\ s.query = session.query
      BY <1>1, <1>5, <3>4, <3>5 DEF Snapshots, States
    <3>7. usage[c].binding = session.query
      BY <1>1, <2>1 DEF CallInv
    <3>8. QED
      BY <1>3, <1>7, <2>1, <2>2, <3>2, <3>4, <3>6, <3>7
  <2>3. CASE ~(/\ Closes(c) /\ clock >= session.updated
               /\ usage[c].calls \in 1..MaxConditions
               /\ usage[c].started >= session.updated)
    BY <1>6, <1>11, <2>1, <2>3 DEF ComparisonsDone
  <2>4. QED
    BY <2>2, <2>3
<1>12. QED
  BY <1>9, <1>10, <1>11

-----------------------------------------------------------------------------
(* The search *)

\* consume_search_approval and the claim: the session is submitted with the
\* plan that was checked, and with the grant of that plan.
LEMMA AuthorizeStep ==
    ASSUME IInv, NEW c \in DOMAIN usage, Authorize(c)
    PROVE  IInv'
<1> USE DEF IInv
<1>1. /\ session \in Snapshots /\ ValidSnapshot(session) /\ usage \in Seq(Charges)
      /\ clock \in Nat /\ call.kind = "none"
  BY OwnerFacts DEF Authorize, Free, NoCall
<1>2. PICK s : s = Submitted(session)
  OBVIOUS
<1>3. PICK g : g = [session.grant EXCEPT !.consumed = clock]
  OBVIOUS
<1>4. /\ session.state = "search_approval" /\ PlanMatches(session, review)
      /\ session.grant # NoGrant /\ session.grant.plan = review
      /\ session.grant.issued <= clock /\ clock < Expires(session.grant.plan)
      /\ usage[c].status = "started" /\ session.grant.issued <= usage[c].started
      /\ usage[c].started <= clock
  BY DEF Authorize, Prepared, SearchReservation
<1>5. /\ Advance(s)
      /\ call' = [kind |-> "search", charge |-> c, done |-> 0]
      /\ UNCHANGED <<usage, review, tokens, answer, clock, setBack, ended>>
  BY <1>2 DEF Authorize
<1>6. /\ g \in Grants /\ g.plan = session.grant.plan /\ g.consumed = clock
      /\ g.issued = session.grant.issued
  BY <1>1, <1>3, FieldFacts DEF Grants, Times
<1>7. s = [session EXCEPT !.state = "scrape_submitted", !.updated = clock, !.grant = g]
  BY <1>1, <1>2, <1>3 DEF Submitted, Snapshots
<1>8. /\ s \in Snapshots /\ s.state = "scrape_submitted" /\ s.updated = clock
      /\ s.grant = g /\ s.im = session.im /\ s.intent = session.intent
      /\ s.query = session.query /\ s.progress = session.progress
  BY <1>1, <1>6, <1>7 DEF Snapshots, States, Executing
<1>9. ValidSnapshot(s)
  <2>1. session.intent \in Ready /\ session.query # 0 /\ s.progress = NoProgress
    BY <1>1, <1>4, <1>8, ValidBefore DEF Executing
  <2>2. ReviewBound(s)
    BY <1>8, <2>1, SearchSessionAssumption DEF ReviewBound
  <2>3. ImagesBound(s)
    <3>1. ImagesBound(session)
      BY <1>1 DEF ValidSnapshot
    <3>2. QED
      BY <1>4, <1>8, <3>1 DEF ImagesBound, Executing
  <2>4. GrantBound(s)
    <3>1. g.issued < Expires(g.plan)
      BY <1>1, <1>4, <1>6 DEF ValidSnapshot, GrantBound
    <3>2. g.consumed # None
      BY <1>1, <1>6, NothingFacts
    <3>3. QED
      BY <1>4, <1>6, <1>8, <3>1, <3>2, NothingFacts DEF GrantBound, Executing
  <2>5. ProgressBound(s)
    BY <1>8, <2>1 DEF ProgressBound, Results, Executing
  <2>6. QED
    BY <2>2, <2>3, <2>4, <2>5 DEF ValidSnapshot
<1>10. session' = s /\ refused' = refused
  BY <1>5, <1>9, AdvanceStep
<1>11. /\ call' \in CallStates /\ call'.kind = "search" /\ call'.charge = c
       /\ call' # NoCall
  <2>1. c \in Nat
    BY <1>1, ChargeFacts
  <2>2. QED
    BY <1>5, <2>1 DEF CallStates, NoCall
<1>12. TypeInv'
  <2>1. tokens' \in Nat
    BY <1>5 DEF TypeInv
  <2>2. QED
    BY <1>5, <1>8, <1>10, <1>11, <2>1 DEF TypeInv
<1>13. ValidatorAgrees'
  BY <1>9, <1>10 DEF ValidatorAgrees
<1>14. ImagesInv'
  BY <1>5, <1>8, <1>10 DEF ImagesInv, PaidBy
<1>15. CallInv'
  BY <1>4, <1>5, <1>6, <1>8, <1>10, <1>11 DEF CallInv
<1>16. ApprovedInv'
  BY <1>4, <1>5, <1>6, <1>8, <1>10 DEF ApprovedInv, PlanMatches
<1>17. SettledInv'
  BY <1>1, <1>5, <1>6, <1>8, <1>10, <1>11 DEF SettledInv
<1>18. QED
  BY <1>12, <1>13, <1>14, <1>15, <1>16, <1>17

\* Each candidate of an answer is a product or rejected, not both.
LEMMA CandidateCounts ==
    ASSUME NEW data \in Responses
    PROVE  /\ Len(data) \in Nat
           /\ Cardinality(ProductsOf(data)) \in Nat
           /\ Cardinality(Rejections(data)) \in Nat
           /\ Cardinality(ProductsOf(data)) + Cardinality(Rejections(data)) = Len(data)
<1>1. PICK n \in 0..MaxCandidates : data \in [1..n -> 0..2]
  BY DEF Responses
<1>2. n \in Nat /\ DOMAIN data = 1..n
  BY <1>1
<1>3. data \in Seq(0..2) /\ Len(data) = n
  <2>1. data \in Seq(0..2)
    BY <1>1, <1>2, IsASeq
  <2>2. QED
    BY <1>2, <2>1, LenProperties
<1>4. IsFiniteSet(1..n) /\ Cardinality(1..n) = n
  BY <1>2, FS_Interval
<1>5. Rejections(data) \subseteq 1..n /\ ProductsOf(data) = (1..n) \ Rejections(data)
  BY <1>2 DEF Rejections, ProductsOf
<1>6. /\ IsFiniteSet(Rejections(data)) /\ Cardinality(Rejections(data)) \in Nat
      /\ IsFiniteSet(ProductsOf(data)) /\ Cardinality(ProductsOf(data)) \in Nat
  BY <1>4, <1>5, FS_Subset, FS_Difference, FS_CardinalityType
<1>7. Cardinality(ProductsOf(data)) = Cardinality(1..n) - Cardinality(Rejections(data))
  <2>1. (1..n) \cap Rejections(data) = Rejections(data)
    BY <1>5
  <2>2. QED
    BY <1>4, <1>5, <2>1, FS_Difference
<1>8. QED
  BY <1>2, <1>3, <1>4, <1>6, <1>7

\* t is s with another state, progress and time.
Follows(s, t, state, progress) ==
    t = [s EXCEPT !.state = state, !.updated = clock, !.progress = progress]

\* What the pipeline makes of a valid executing session is valid, if its
\* progress fits its state.
LEMMA ResultValid ==
    ASSUME NEW s \in Snapshots, ValidSnapshot(s), s.state \in Executing,
           clock \in Nat, NEW t, NEW state \in Results, NEW p \in Progresses,
           Follows(s, t, state, p), ProgressBound(t)
    PROVE  /\ t \in Snapshots /\ ValidSnapshot(t)
           /\ t.state = state /\ t.progress = p /\ t.updated = clock
           /\ t.intent = s.intent /\ t.query = s.query /\ t.im = s.im
           /\ t.grant = s.grant
<1>1. /\ t \in Snapshots /\ t.state = state /\ t.progress = p /\ t.updated = clock
      /\ t.intent = s.intent /\ t.query = s.query /\ t.im = s.im /\ t.grant = s.grant
  BY DEF Follows, Snapshots, States, Results, Executing
<1>2. s.intent \in Ready
  <2>1. s.intent \in Ready \cup Blocking \cup {0}
    BY FieldFacts DEF Intents
  <2>2. QED
    BY <2>1 DEF ValidSnapshot, ReviewBound, Executing
<1>3. ReviewBound(t)
  BY <1>1, <1>2, SearchSessionAssumption
     DEF ValidSnapshot, ReviewBound, Results, Executing
<1>4. ImagesBound(t)
  <2>1. ImagesBound(s)
    BY DEF ValidSnapshot
  <2>2. QED
    BY <1>1, <2>1 DEF ImagesBound, Results, Executing
<1>5. GrantBound(t)
  <2>1. GrantBound(s)
    BY DEF ValidSnapshot
  <2>2. QED
    BY <1>1, <2>1 DEF GrantBound, Results, Executing
<1>6. QED
  BY <1>1, <1>3, <1>4, <1>5 DEF ValidSnapshot

\* fail_product_search, from the session that was submitted.
LEMMA FailedValid ==
    ASSUME NEW s \in Snapshots, ValidSnapshot(s), s.state = "scrape_submitted",
           clock \in Nat, NEW t, t = Failed(s, "product_search")
    PROVE  /\ t \in Snapshots /\ ValidSnapshot(t)
           /\ t.state = "search_failed" /\ t.updated = clock
           /\ t.intent = s.intent /\ t.query = s.query /\ t.im = s.im
           /\ t.grant = s.grant
<1>1. PICK p : p = [NoProgress EXCEPT !.stage = "product_search"]
  OBVIOUS
<1>2. s.progress = NoProgress
  BY DEF ValidSnapshot, ProgressBound, Results
<1>3. /\ p = [received |-> None, normalized |-> None, rejected |-> None,
              ranked |-> None, outcome |-> "none", stage |-> "product_search"]
  BY <1>1 DEF NoProgress
<1>4. p \in Progresses
  BY <1>3 DEF Progresses
<1>5. Follows(s, t, "search_failed", p)
  BY <1>1, <1>2 DEF Failed, Follows, Snapshots
<1>6. t.state = "search_failed" /\ t.progress = p
  BY <1>5 DEF Follows, Snapshots
<1>7. ProgressBound(t)
  <2>1. /\ p.received = None /\ p.normalized = None /\ p.rejected = None
        /\ p.ranked = None /\ p.outcome = "none" /\ p.stage = "product_search"
    BY <1>3
  <2>2. QED
    BY <1>6, <2>1 DEF ProgressBound, Results, Executing
<1>8. QED
  BY <1>4, <1>5, <1>7, ResultValid DEF Results, Executing

\* complete_product_search makes only snapshots that its validator takes, and
\* the last of them has ended, wherever the pipeline fails.
LEMMA PipelineValid ==
    ASSUME NEW s \in Snapshots, ValidSnapshot(s), s.state = "scrape_submitted",
           clock \in Nat, NEW data \in Responses,
           NEW fault \in {"none", "product_normalization", "ranking"},
           NEW steps, steps = Progress(s, data, fault)
    PROVE  /\ \A i \in DOMAIN steps : ValidSnapshot(steps[i])
           /\ LET t == steps[Len(steps)]
              IN  /\ t \in Snapshots /\ ValidSnapshot(t) /\ t.updated = clock
                  /\ t.state \in {"search_completed", "search_failed"}
                  /\ t.progress.outcome \in {"none", "results", "empty"}
                  /\ t.state = "search_completed" => t.progress.outcome # "none"
                  /\ t.intent = s.intent /\ t.query = s.query /\ t.im = s.im
                  /\ t.grant = s.grant
<1>1. PICK n \in Nat, a \in Nat, b \in Nat :
        /\ n = Len(data) /\ a = Cardinality(ProductsOf(data))
        /\ b = Cardinality(Rejections(data)) /\ a + b = n
  BY CandidateCounts
<1>2. None = -1 /\ s.progress = NoProgress /\ s.state \in Executing
  BY DEF ValidSnapshot, ProgressBound, Results, None, Executing
<1>3. PICK p1 : p1 = [received |-> n, normalized |-> None, rejected |-> None,
                      ranked |-> None, outcome |-> "none", stage |-> "none"]
  OBVIOUS
<1>4. PICK p2 : p2 = [received |-> n, normalized |-> a, rejected |-> b,
                      ranked |-> None, outcome |-> "none", stage |-> "none"]
  OBVIOUS
<1>5. PICK out \in {"results", "empty"} : out = IF a > 0 THEN "results" ELSE "empty"
  OBVIOUS
<1>6. PICK p3 : p3 = [received |-> n, normalized |-> a, rejected |-> b,
                      ranked |-> a, outcome |-> out, stage |-> "none"]
  OBVIOUS
<1>7. PICK p4 : p4 = [received |-> n, normalized |-> None, rejected |-> None,
                      ranked |-> None, outcome |-> "none",
                      stage |-> "product_normalization"]
  OBVIOUS
<1>8. PICK p5 : p5 = [received |-> n, normalized |-> a, rejected |-> b,
                      ranked |-> None, outcome |-> "none", stage |-> "ranking"]
  OBVIOUS
<1>9. {p1, p2, p3, p4, p5} \subseteq Progresses
  BY <1>3, <1>4, <1>6, <1>7, <1>8 DEF Progresses
<1>10. PICK received : received = Received(s, n)
  OBVIOUS
<1>11. Follows(s, received, "products_received", p1)
  <2>1. p1 = [s.progress EXCEPT !.received = n]
    BY <1>2, <1>3 DEF NoProgress
  <2>2. QED
    BY <1>10, <2>1 DEF Received, Follows, Snapshots
<1>12. /\ received \in Snapshots /\ ValidSnapshot(received)
       /\ received.state \in Executing /\ received.progress = p1
       /\ received.intent = s.intent /\ received.query = s.query
       /\ received.im = s.im /\ received.grant = s.grant
  <2>1. received.state = "products_received" /\ received.progress = p1
    BY <1>11 DEF Follows, Snapshots
  <2>2. ProgressBound(received)
    <3>1. p1 = [NoProgress EXCEPT !.received = p1.received] /\ p1 # NoProgress
      BY <1>2, <1>3 DEF NoProgress
    <3>2. QED
      BY <1>3, <2>1, <3>1 DEF ProgressBound, Results, Executing
  <2>3. QED
    BY <1>2, <1>9, <1>11, <2>1, <2>2, ResultValid DEF Results, Executing
<1>13. PICK counted : counted = Normalized(received, a, b)
  OBVIOUS
<1>14. Follows(received, counted, "products_normalized", p2)
  <2>1. p2 = [received.progress EXCEPT !.normalized = a, !.rejected = b]
    <3>1. received.progress = [received |-> n, normalized |-> None, rejected |-> None,
                               ranked |-> None, outcome |-> "none", stage |-> "none"]
      BY <1>3, <1>12
    <3>2. PICK q : q = [received.progress EXCEPT !.normalized = a]
      OBVIOUS
    <3>3. q = [received |-> n, normalized |-> a, rejected |-> None,
               ranked |-> None, outcome |-> "none", stage |-> "none"]
      BY <3>1, <3>2
    <3>4. p2 = [q EXCEPT !.rejected = b]
      BY <1>4, <3>3
    <3>5. QED
      BY <3>2, <3>4
  <2>2. QED
    BY <1>12, <1>13, <2>1 DEF Normalized, Follows, Snapshots
<1>15. /\ counted \in Snapshots /\ ValidSnapshot(counted)
       /\ counted.state \in Executing /\ counted.progress = p2
       /\ counted.intent = s.intent /\ counted.query = s.query
       /\ counted.im = s.im /\ counted.grant = s.grant
  <2>1. counted.state = "products_normalized" /\ counted.progress = p2
    BY <1>12, <1>14 DEF Follows, Snapshots
  <2>2. ProgressBound(counted)
    BY <1>1, <1>2, <1>4, <2>1 DEF ProgressBound, Results, Executing
  <2>3. QED
    BY <1>9, <1>12, <1>14, <2>1, <2>2, ResultValid DEF Results, Executing
<1>16. ASSUME NEW t, NEW u, u = received \/ u = counted,
              NEW state \in {"search_completed", "search_failed"},
              NEW p \in {p3, p4, p5}, Follows(u, t, state, p), ProgressBound(t)
       PROVE  /\ t \in Snapshots /\ ValidSnapshot(t) /\ t.updated = clock
              /\ t.state = state /\ t.progress = p
              /\ t.intent = s.intent /\ t.query = s.query /\ t.im = s.im
              /\ t.grant = s.grant
  <2>1. /\ u \in Snapshots /\ ValidSnapshot(u) /\ u.state \in Executing
        /\ u.intent = s.intent /\ u.query = s.query /\ u.im = s.im
        /\ u.grant = s.grant
    BY <1>12, <1>15, <1>16
  <2>2. state \in Results /\ p \in Progresses
    BY <1>9 DEF Results, Executing
  <2>3. QED
    BY <1>16, <2>1, <2>2, ResultValid
<1>17. CASE fault = "product_normalization"
  <2>1. PICK t : t = Failed(received, "product_normalization")
    OBVIOUS
  <2>2. steps = <<received, t>>
    BY <1>1, <1>10, <1>17, <2>1 DEF Progress
  <2>3. Follows(received, t, "search_failed", p4)
    <3>1. p4 = [received.progress EXCEPT !.stage = "product_normalization"]
      BY <1>3, <1>7, <1>12
    <3>2. QED
      BY <1>12, <2>1, <3>1 DEF Failed, Follows, Snapshots
  <2>4. t.state = "search_failed" /\ t.progress = p4
    BY <1>12, <2>3 DEF Follows, Snapshots
  <2>5. ProgressBound(t)
    BY <1>2, <1>7, <2>4 DEF ProgressBound, Results, Executing
  <2>6. /\ t \in Snapshots /\ ValidSnapshot(t) /\ t.updated = clock
        /\ t.intent = s.intent /\ t.query = s.query /\ t.im = s.im
        /\ t.grant = s.grant
    BY <1>16, <2>3, <2>5
  <2>7. Len(steps) = 2 /\ steps[2] = t /\ steps[1] = received /\ DOMAIN steps = 1..2
    BY <2>2
  <2>8. QED
    BY <1>7, <1>12, <2>4, <2>6, <2>7
<1>18. CASE fault = "ranking"
  <2>1. PICK t : t = Failed(counted, "ranking")
    OBVIOUS
  <2>2. steps = <<received, counted, t>>
    BY <1>1, <1>10, <1>13, <1>18, <2>1 DEF Progress
  <2>3. Follows(counted, t, "search_failed", p5)
    <3>1. p5 = [counted.progress EXCEPT !.stage = "ranking"]
      BY <1>4, <1>8, <1>15
    <3>2. QED
      BY <1>15, <2>1, <3>1 DEF Failed, Follows, Snapshots
  <2>4. t.state = "search_failed" /\ t.progress = p5
    BY <1>15, <2>3 DEF Follows, Snapshots
  <2>5. ProgressBound(t)
    BY <1>1, <1>2, <1>8, <2>4 DEF ProgressBound, Results, Executing
  <2>6. /\ t \in Snapshots /\ ValidSnapshot(t) /\ t.updated = clock
        /\ t.intent = s.intent /\ t.query = s.query /\ t.im = s.im
        /\ t.grant = s.grant
    BY <1>16, <2>3, <2>5
  <2>7. /\ Len(steps) = 3 /\ DOMAIN steps = 1..3
        /\ steps[1] = received /\ steps[2] = counted /\ steps[3] = t
    BY <2>2
  <2>8. QED
    BY <1>8, <1>12, <1>15, <2>4, <2>6, <2>7
<1>19. CASE fault = "none"
  <2>1. PICK t : t = Completed(counted, a)
    OBVIOUS
  <2>2. steps = <<received, counted, t>>
    BY <1>1, <1>10, <1>13, <1>19, <2>1 DEF Progress
  <2>3. Follows(counted, t, "search_completed", p3)
    <3>1. p3 = [counted.progress EXCEPT !.ranked = a, !.outcome = out]
      <4>1. counted.progress = [received |-> n, normalized |-> a, rejected |-> b,
                                ranked |-> None, outcome |-> "none", stage |-> "none"]
        BY <1>4, <1>15
      <4>2. PICK q : q = [counted.progress EXCEPT !.ranked = a]
        OBVIOUS
      <4>3. q = [received |-> n, normalized |-> a, rejected |-> b,
                 ranked |-> a, outcome |-> "none", stage |-> "none"]
        BY <4>1, <4>2
      <4>4. p3 = [q EXCEPT !.outcome = out]
        BY <1>6, <4>3
      <4>5. QED
        BY <4>2, <4>4
    <3>2. QED
      BY <1>5, <1>15, <2>1, <3>1 DEF Completed, Follows, Snapshots
  <2>4. t.state = "search_completed" /\ t.progress = p3
    BY <1>15, <2>3 DEF Follows, Snapshots
  <2>5. ProgressBound(t)
    BY <1>1, <1>2, <1>5, <1>6, <2>4 DEF ProgressBound, Results, Executing
  <2>6. /\ t \in Snapshots /\ ValidSnapshot(t) /\ t.updated = clock
        /\ t.intent = s.intent /\ t.query = s.query /\ t.im = s.im
        /\ t.grant = s.grant
    BY <1>16, <2>3, <2>5
  <2>7. /\ Len(steps) = 3 /\ DOMAIN steps = 1..3
        /\ steps[1] = received /\ steps[2] = counted /\ steps[3] = t
    BY <2>2
  <2>8. QED
    BY <1>5, <1>6, <1>12, <1>15, <2>4, <2>6, <2>7
<1>20. QED
  BY <1>17, <1>18, <1>19

\* The session of the search that runs, and its plan.
LEMMA SearchFacts ==
    ASSUME IInv, call.kind = "search"
    PROVE  /\ session \in Snapshots /\ ValidSnapshot(session)
           /\ session.state = "scrape_submitted" /\ session.state \in Executing
           /\ clock \in Nat /\ usage \in Seq(Charges)
           /\ call.charge \in DOMAIN usage /\ usage[call.charge].status = "started"
           /\ session.grant.plan = review /\ PlanMatches(session, review)
           /\ session.grant.issued <= usage[call.charge].started
           /\ setBack = 0 => /\ SubmittedContext(session) /\ Closes(call.charge)
                             /\ session.grant.consumed <= clock
<1>1. /\ session \in Snapshots /\ ValidSnapshot(session) /\ clock \in Nat
      /\ usage \in Seq(Charges) /\ CallInv /\ ApprovedInv /\ SettledInv
  BY OwnerFacts DEF IInv
<1>2. /\ session.state = "scrape_submitted" /\ session.state \in Executing
      /\ call.charge \in DOMAIN usage /\ usage[call.charge].status = "started"
      /\ session.grant.issued <= usage[call.charge].started
  BY <1>1 DEF CallInv, Executing
<1>3. session.grant.plan = review /\ PlanMatches(session, review)
  BY <1>1, <1>2 DEF ApprovedInv
<1>4. setBack = 0 => /\ SubmittedContext(session) /\ Closes(call.charge)
                     /\ session.grant.consumed <= clock
  BY <1>1, <1>2, <1>3 DEF SettledInv, SubmittedContext, Closes
<1>5. QED
  BY <1>1, <1>2, <1>3, <1>4

\* The search ends with the session t, which has ended, or leaves the session
\* alone; that is so only when the clock was set back.
LEMMA SearchEnds ==
    ASSUME IInv, call.kind = "search", NEW success \in BOOLEAN,
           Finish(call.charge, success), NEW t \in Snapshots, session' = t,
           refused' = refused, NEW a \in {"failed", "raised", "results", "empty"},
           answer' = a, Over, UNCHANGED <<owner, clock, setBack>>,
           \/ t = session /\ a = "raised" /\ setBack # 0
           \/ /\ ValidSnapshot(t) /\ t.updated = clock
              /\ t.state \in {"search_completed", "search_failed"}
              /\ t.intent = session.intent /\ t.query = session.query
              /\ t.im = session.im /\ t.grant = session.grant
              /\ a = OutcomeOf(t) /\ a # "raised"
    PROVE  IInv'
<1>1. PICK c : c = call.charge
  OBVIOUS
<1>2. /\ c \in DOMAIN usage /\ usage[c].status = "started" /\ Finish(c, success)
      /\ call' = NoCall /\ ended' = ended \cup {c}
      /\ UNCHANGED <<review, tokens, clock, setBack>>
  BY <1>1, SearchFacts DEF Over, owner
<1>3. ValidSnapshot(t)
  BY SearchFacts
<1>4. t.im = session.im /\ t.query = session.query
  OBVIOUS
<1>5. ImagesInv /\ clock \in Nat
  BY OwnerFacts DEF IInv
<1>6. /\ t.im.images # 0 => /\ PaidBy(t.im.images, t.query, t.im.policy)
                            /\ usage[t.im.images].status = "succeeded"
      /\ t.im.active # 0 => PaidBy(t.im.active, t.query, t.im.policy)
  BY <1>4, <1>5 DEF ImagesInv
<1>7. t.grant.plan = review /\ PlanMatches(t, review)
  BY SearchFacts DEF PlanMatches
<1>8. setBack = 0 => /\ t.updated <= clock /\ t.grant.consumed <= clock /\ a # "raised"
                     /\ t.state \in {"search_completed", "search_failed"}
                     /\ a = OutcomeOf(t)
  BY <1>5, SearchFacts
<1>9. QED
  BY <1>2, <1>3, <1>6, <1>7, <1>8, CallEnds

\* fail_product_search: the session has failed, or the error is the answer.
LEMMA FailSearchStep ==
    ASSUME IInv, call.kind = "search", NEW success \in BOOLEAN,
           Finish(call.charge, success), FailSearch, Over,
           UNCHANGED <<owner, clock, setBack>>
    PROVE  IInv'
<1>1. /\ session \in Snapshots /\ ValidSnapshot(session) /\ clock \in Nat
      /\ session.state = "scrape_submitted"
      /\ setBack = 0 => SubmittedContext(session)
  BY SearchFacts
<1>2. CASE SubmittedContext(session)
  <2>1. PICK t : t = Failed(session, "product_search")
    OBVIOUS
  <2>2. /\ t \in Snapshots /\ ValidSnapshot(t)
        /\ t.state = "search_failed" /\ t.updated = clock
        /\ t.intent = session.intent /\ t.query = session.query
        /\ t.im = session.im /\ t.grant = session.grant
    BY <1>1, <2>1, FailedValid
  <2>3. session' = t /\ refused' = refused /\ answer' = "failed"
    BY <1>2, <2>1, <2>2, AdvanceStep DEF FailSearch
  <2>4. OutcomeOf(t) = "failed"
    BY <2>2 DEF OutcomeOf
  <2>5. PICK a \in {"failed", "raised", "results", "empty"} : a = "failed"
    OBVIOUS
  <2>6. QED
    BY <2>2, <2>3, <2>4, <2>5, SearchEnds
<1>3. CASE ~SubmittedContext(session)
  <2>1. session' = session /\ refused' = refused /\ answer' = "raised"
    BY <1>3 DEF FailSearch
  <2>2. PICK t \in Snapshots : t = session
    BY <1>1
  <2>3. PICK a \in {"failed", "raised", "results", "empty"} : a = "raised"
    OBVIOUS
  <2>4. QED
    BY <1>1, <1>3, <2>1, <2>2, <2>3, SearchEnds
<1>4. QED
  BY <1>2, <1>3

\* A search that fails, and one whose answer goes through the pipeline.
LEMMA SearchSteps ==
    ASSUME IInv,
           \/ SearchFails
           \/ \E data \in Responses,
                 fault \in {"none", "product_normalization", "ranking"} :
                    SearchSucceeds(data, fault)
    PROVE  IInv'
<1>1. CASE SearchFails
  BY <1>1, FailSearchStep DEF SearchFails
<1>2. ASSUME NEW data \in Responses,
             NEW fault \in {"none", "product_normalization", "ranking"},
             SearchSucceeds(data, fault)
      PROVE  IInv'
  <2>1. PICK steps : steps = Progress(session, data, fault)
    OBVIOUS
  <2>2. PICK t : t = steps[Len(steps)]
    OBVIOUS
  <2>3. /\ call.kind = "search" /\ Finish(call.charge, TRUE) /\ Over
        /\ UNCHANGED <<owner, clock, setBack>>
    BY <1>2 DEF SearchSucceeds
  <2>4. /\ session \in Snapshots /\ ValidSnapshot(session) /\ clock \in Nat
        /\ session.state = "scrape_submitted"
    BY <2>3, SearchFacts
  <2>5. /\ \A i \in DOMAIN steps : ValidSnapshot(steps[i])
        /\ t \in Snapshots /\ ValidSnapshot(t) /\ t.updated = clock
        /\ t.state \in {"search_completed", "search_failed"}
        /\ t.progress.outcome \in {"none", "results", "empty"}
        /\ t.state = "search_completed" => t.progress.outcome # "none"
        /\ t.intent = session.intent /\ t.query = session.query
        /\ t.im = session.im /\ t.grant = session.grant
    BY <2>1, <2>2, <2>4, PipelineValid
  <2>6. CASE ~Closes(call.charge)
    <3>1. FailSearch
      BY <1>2, <2>6 DEF SearchSucceeds
    <3>2. QED
      BY <2>3, <3>1, FailSearchStep
  <2>7. CASE Closes(call.charge) /\ PipelineContext(session, call.charge)
    <3>1. session' = t /\ refused' = refused /\ answer' = OutcomeOf(t)
      BY <1>2, <2>1, <2>2, <2>5, <2>7 DEF SearchSucceeds
    <3>2. PICK a \in {"failed", "results", "empty"} : a = OutcomeOf(t)
      BY <2>5 DEF OutcomeOf
    <3>3. QED
      BY <2>3, <2>5, <3>1, <3>2, SearchEnds
  <2>8. CASE Closes(call.charge) /\ ~PipelineContext(session, call.charge)
    <3>1. session' = session /\ refused' = refused /\ answer' = "raised"
      BY <1>2, <2>1, <2>8 DEF SearchSucceeds
    <3>2. setBack # 0
      <4>1. SUFFICES ASSUME setBack = 0 PROVE PipelineContext(session, call.charge)
        BY <2>8
      <4>2. /\ SubmittedContext(session) /\ session.grant.consumed <= clock
            /\ session.grant.issued <= usage[call.charge].started
        BY <2>3, <4>1, SearchFacts
      <4>3. /\ usage[call.charge].started \in Nat
            /\ session.grant.issued \in Nat \cup {-1}
            /\ session.grant.consumed \in Nat \cup {-1}
        <5>1. call.charge \in DOMAIN usage /\ usage \in Seq(Charges)
          BY <2>3, SearchFacts
        <5>2. session.grant \in Grants
          BY <2>4, FieldFacts
        <5>3. QED
          BY <5>1, <5>2, ChargeFacts DEF Grants, Times, None
      <4>4. QED
        BY <2>4, <4>2, <4>3 DEF PipelineContext
    <3>3. PICK u \in Snapshots : u = session
      BY <2>4
    <3>4. PICK a \in {"failed", "raised", "results", "empty"} : a = "raised"
      OBVIOUS
    <3>5. QED
      BY <2>3, <3>1, <3>2, <3>3, <3>4, SearchEnds
  <2>9. QED
    BY <2>6, <2>7, <2>8
<1>3. QED
  BY <1>1, <1>2

-----------------------------------------------------------------------------
(* The invariant of the specification *)

\* create_search_session: a draft, valid, with nothing on record.
LEMMA InitIInv == Init => IInv
<1> SUFFICES ASSUME Init PROVE IInv
  OBVIOUS
<1>1. /\ session = Draft /\ usage = <<>> /\ review = NoPlan /\ tokens = 0
      /\ call = NoCall /\ answer = "none" /\ clock = 0 /\ setBack = 0
      /\ refused = FALSE /\ ended = {}
  BY DEF Init
<1>2. /\ Draft \in Snapshots /\ Draft.im = NoImages /\ Draft.grant = NoGrant
      /\ Draft.progress = NoProgress /\ Draft.state = "draft" /\ Draft.intent = 0
      /\ Draft.query = 0 /\ Draft.updated = 0
  BY NothingFacts DEF Draft, Snapshots, States
<1>3. ValidSnapshot(Draft)
  BY <1>2, PlainValid
<1>4. /\ NoCall \in CallStates /\ NoCall.kind = "none"
      /\ usage \in Seq(Charges) /\ DOMAIN usage = {}
  BY <1>1 DEF NoCall, CallStates
<1>5. TypeInv
  BY <1>1, <1>2, <1>4, NothingFacts DEF TypeInv
<1>6. ValidatorAgrees
  BY <1>1, <1>3 DEF ValidatorAgrees
<1>7. ImagesInv
  BY <1>1, <1>2, NothingFacts DEF ImagesInv
<1>8. CallInv
  BY <1>1, <1>4 DEF CallInv
<1>9. ApprovedInv
  BY <1>1, <1>2 DEF ApprovedInv, Executing
<1>10. SettledInv
  BY <1>1, <1>2, <1>4, NothingFacts DEF SettledInv, Executing, None
<1>11. QED
  BY <1>5, <1>6, <1>7, <1>8, <1>9, <1>10 DEF IInv

\* Every call of the owner, every answer of a provider and the clock keep it.
LEMMA StepIInv == IInv /\ [Next]_vars => IInv'
<1> SUFFICES ASSUME IInv, [Next]_vars PROVE IInv'
  OBVIOUS
<1>1. CASE IntentStep
  BY <1>1, IntentSteps, PlainApprovals DEF IntentStep
<1>2. CASE ImageStep
  BY <1>2, ReserveSteps, GenerateSteps, CallSteps, ImageApproval, PlainApprovals,
     ImageCallEnds DEF ImageStep
<1>3. CASE SearchStep
  BY <1>3, ReviewStep, ReserveSteps, IssueApproval, AuthorizeStep, RefusedSearch,
     CallSteps, SearchSteps DEF SearchStep
<1>4. CASE Tick \/ SetBack
  BY <1>4, ClockSteps
<1>5. CASE UNCHANGED vars
  <2>1. UNCHANGED <<session, usage, review, tokens, call, answer, clock, setBack,
                    refused, ended>>
    BY <1>5 DEF vars, owner
  <2>2. (TypeInv /\ ValidatorAgrees /\ ApprovedInv)'
    BY <2>1 DEF IInv, TypeInv, ValidatorAgrees, ApprovedInv
  <2>3. (ImagesInv /\ CallInv /\ SettledInv)'
    BY <2>1 DEF IInv, ImagesInv, PaidBy, CallInv, SettledInv
  <2>4. QED
    BY <2>2, <2>3 DEF IInv
<1>6. QED
  BY <1>1, <1>2, <1>3, <1>4, <1>5 DEF Next

\* The invariant holds of every session its owner can drive.
THEOREM Invariance == Spec => []IInv
<1>1. QED
  BY InitIInv, StepIInv, PTL DEF Spec

\* No transition makes a snapshot that validate_state_contract refuses, and
\* the snapshot the owner holds is always valid.
THEOREM ValidatorTheorem == Spec => []ValidatorAgrees
<1>1. IInv => ValidatorAgrees
  BY DEF IInv
<1>2. QED
  BY <1>1, Invariance, PTL

\* What runs, or ran, as the paid search is the plan that the token was issued
\* for: this intent and these images, paid for and made from its query plan.
THEOREM ApprovedTheorem == Spec => []SearchedAsApproved
<1>1. IInv => SearchedAsApproved
  <2> SUFFICES ASSUME IInv, session.state \in Executing
               PROVE  /\ session.grant.plan.intent = session.intent
                      /\ session.grant.plan.images = session.im.images
                      /\ session.im.images # 0 =>
                            /\ usage[session.im.images].status = "succeeded"
                            /\ usage[session.im.images].binding = session.query
                            /\ usage[session.im.images].policy
                                 = session.grant.plan.policy
    BY DEF SearchedAsApproved
  <2>1. session.grant.plan = review /\ PlanMatches(session, review)
    BY DEF IInv, ApprovedInv
  <2>2. session.im.images # 0 => session.im.mode = "on"
    <3>1. /\ session.im \in ImageStates /\ ImagesBound(session)
      BY OwnerFacts, FieldFacts DEF ValidSnapshot
    <3>2. QED
      BY <3>1, ImageFields, NothingFacts DEF ImagesBound
  <2>3. QED
    BY <2>1, <2>2 DEF IInv, ImagesInv, PaidBy, PlanMatches
<1>2. QED
  BY <1>1, Invariance, PTL

\* With a clock that is never set back, every provider call that is over has
\* closed its reservation, and a paid search that is over has its answer.
THEOREM SettledTheorem == Spec => []CallsSettle
<1>1. IInv => CallsSettle
  <2> SUFFICES ASSUME IInv, setBack = 0
               PROVE  /\ \A c \in ended : usage[c].status \in {"succeeded", "failed"}
                      /\ answer # "raised"
                      /\ session.state \in Executing /\ call = NoCall =>
                           /\ session.state \in {"search_completed", "search_failed"}
                           /\ answer = OutcomeOf(session)
    BY DEF CallsSettle
  <2>1. /\ usage \in Seq(Charges) /\ ended \subseteq DOMAIN usage /\ SettledInv
        /\ (call.kind = "none") = (call = NoCall)
    BY DEF IInv, TypeInv
  <2>2. \A c \in ended : usage[c].status \in {"started", "succeeded", "failed"}
    BY <2>1, ChargeFacts DEF Charges
  <2>3. QED
    BY <2>1, <2>2 DEF SettledInv
<1>2. QED
  BY <1>1, Invariance, PTL
===============================================================================
