-------------------------- MODULE BrowserSearchProofs --------------------------
(***************************************************************************)
(* Proofs about BrowserSearch for every limit on preparations, commands    *)
(* and image sets: the stage shown is the one the search is in, a cancel   *)
(* that was accepted wins, no command is taken for another, the images of  *)
(* a preparation stay within their budget and a result whose save failed   *)
(* stays where its save can be tried again.                                *)
(***************************************************************************)
EXTENDS BrowserSearch, SequenceTheorems, TLAPS

-----------------------------------------------------------------------------
(* The inductive invariant *)

\* The yields the generator can wait at
Waits == {"query", "reference", "comparison", "final", "final_skip",
          "image_failed", "attributes", "unsaved"}

\* The program counters between two commands and inside one
Between == {"idle", "execute", "commit"}

\* What execute recorded is the stage of the last yield, there is no generator
\* exactly when nothing was started, and inside a command it is alive.
WaitInv ==
    /\ gen.at \in Waits \cup {"none", "ended"}
    /\ gen.at \in Waits => run.stage = OutStage(gen.at)
    /\ worker.pc \notin Between => gen.at \in Waits
    /\ gen.at = "none" <=> ~run.started
    /\ gen.at = "none" => run.stage = "idle" /\ run.preparations = 0

\* Between two commands the flow is in the state the yield stands for.
AtYield(at, state) ==
    /\ at = "query" => state = "planned"
    /\ at = "reference" => state = "reference_review"
    /\ at \in {"comparison", "final"} => state = "images_review"
    /\ at = "final_skip" => state = "images_skipped"
    /\ at = "image_failed" => state = "image_failed"
    /\ at = "attributes" => state = "attribute_review"
    /\ at = "unsaved" => state = "history_pending"
    /\ state = "history_pending" => at \in {"unsaved", "none"}

FlowInv == worker.pc \in Between => AtYield(gen.at, flow.state)

\* The command a is one the generator takes where it waits, and a preparation
\* is one the run does not refuse while its generator is alive.
Fits(a, prepared) ==
    /\ a = "start" => gen.at = "none" /\ run.preparations < prepared
    /\ a = "revise" =>
         /\ gen.at # "none" /\ run.preparations < prepared
         /\ run.stage \in Revisable \/ gen.at = "ended"
    /\ a \notin {"start", "revise", "reset"} =>
         /\ gen.at # "none" /\ run.preparations <= prepared
         /\ gen.at = "query" => a \in {"reference", "without_images"}
         /\ gen.at = "reference" =>
              a \in {"comparison", "without_images", "regenerate"}
         /\ gen.at = "comparison" =>
              a \in {"final", "without_images", "regenerate",
                     "regenerate_comparisons"}
         /\ gen.at = "final" =>
              a \in {"search", "without_images", "regenerate",
                     "regenerate_comparisons"}
         /\ gen.at = "image_failed" =>
              a \in {"without_images", "regenerate", "regenerate_comparisons"}
         /\ gen.at = "final_skip" => a = "search"
         /\ gen.at = "attributes" => a = "rank"
         /\ gen.at = "unsaved" => a = "retry_save"

\* The command that was accepted, queued or taken, fits.  The run never counts
\* more preparations than the controller.
PendingInv ==
    /\ preparations <= MaxPreparations
    /\ jobs # <<>> => Fits(Head(jobs), preparations)
    /\ worker.pc = "execute" => Fits(worker.action, preparations)
    /\ jobs = <<>> /\ worker.pc # "execute" => run.preparations <= preparations

\* What is known of the search when the controller shows the view v, which
\* expires at d.
Shows(v, d) ==
    /\ v.stage = "idle" => gen.at = "none"
    /\ v.stage \in {"query", "reference", "attributes"} =>
         gen.at = v.stage /\ d = Never
    /\ v.stage = "comparison" => gen.at = "comparison" /\ d = flow.expires
    /\ v.stage = "final" =>
         \/ gen.at = "final" /\ d = flow.expires
         \/ /\ gen.at = "final_skip" /\ d = Never
            /\ v.can \cap {"skip", "regenerate", "regenerate_comparisons"} = {}
    /\ v.stage = "expired" => gen.at \in {"comparison", "final"}
    /\ v.stage = "clarification" =>
         gen.at = "ended" /\ run.stage = "clarification"
    /\ v.stage = "failed" => gen.at \in {"image_failed", "ended"}
    /\ v.stage = "cancelled" => gen.at = "ended"
    /\ v.stage = "complete" =>
         IF "retry_save" \in v.can THEN gen.at = "unsaved"
         ELSE gen.at = "ended" /\ flow.state = "completed"

ViewInv == Shows(view, deadline)

\* What the worker is about to show
CommitInv ==
    worker.pc = "commit" =>
        /\ worker.out \in Waits => gen.at = worker.out
        /\ worker.out = "complete" => gen.at = "ended" /\ flow.state = "completed"
        /\ worker.out = "clarification" =>
             gen.at = "ended" /\ run.stage = "clarification"
        /\ worker.out \in {"error", "cancelled"} => gen.at = "ended"
        /\ worker.out = "idle" => gen.at = "none"

\* Inside a command the flow is where the last phase left it, and the command
\* is one that asks for that phase.
PhaseInv ==
    /\ worker.pc \in {"progress0", "fetch"} =>
         flow.state \in {"images_approved", "images_skipped"}
    /\ worker.pc = "fetching" => flow.state = "fetching"
    /\ worker.pc \in {"progress1", "fetched", "progress2", "confirm"} =>
         flow.state = "attribute_review"
    /\ worker.pc \in {"progress3", "evaluate"} => flow.state = "confirmed"
    /\ worker.pc \in {"progress4", "snapshot"} => flow.state = "evaluating"
    /\ worker.pc = "save" => flow.state = "history_pending"
    /\ worker.pc \in {"progress5", "verify"} => flow.state = "completed"
    /\ worker.pc \in {"progress0", "fetch", "fetching", "progress1", "fetched"} =>
         worker.action = "search"
    /\ worker.pc \in {"progress2", "confirm", "progress3", "evaluate",
                      "progress4", "snapshot"} =>
         worker.action \in {"search", "rank"}
    /\ worker.pc = "save" => worker.action \in {"search", "rank", "retry_save"}

\* A cancel is offered, and once accepted stays in force, only while the
\* worker is in the retrieval or on its way out of it.
CancelInv ==
    /\ "cancel" \in view.can =>
         /\ ~cancelRequested
         /\ \/ worker.pc \in {"fetch", "fetching", "progress1"}
            \/ /\ worker.pc = "commit" /\ worker.out = "error"
               /\ flow.state = "failed"
    /\ cancelRequested =>
         \/ worker.pc \in {"fetch", "fetching", "progress1"}
         \/ /\ worker.pc = "commit" /\ worker.out \in {"error", "cancelled"}
            /\ flow.state \in {"failed", "attribute_review"}
         \/ /\ worker.pc = "idle" /\ view.stage \in {"failed", "cancelled"}
            /\ flow.state \in {"failed", "attribute_review"}

\* One row at most, and only for a flow that came to its save
SavedInv ==
    /\ flow.saved <= 1
    /\ flow.saved # 0 => flow.state \in {"history_pending", "completed"}
    /\ flow.state = "completed" => flow.saved = 1

\* Every begun image set pays for one reference and one job of comparisons; a
\* generator that waits for the approval of its reference has the latter left.
SetsInv ==
    /\ gen.sets <= MaxImageSets
    /\ flow.attempt <= MaxImageSets /\ flow.derived <= MaxImageSets
    /\ gen.at \in Waits => flow.attempt <= gen.sets /\ flow.derived <= gen.sets
    /\ gen.at = "reference" => flow.derived < gen.sets

IInv ==
    /\ TypeOK /\ WorkingIffBusy /\ WaitInv /\ FlowInv /\ PendingInv /\ ViewInv
    /\ CommitInv /\ PhaseInv /\ CancelInv /\ SavedInv /\ SetsInv
-----------------------------------------------------------------------------
(* Types *)

Views == [stage : Stages, revision : Nat, can : SUBSET Flags]

Deadlines == Nat \cup {Never}

PCs == {"idle", "execute", "commit", "fetch", "fetching",
        "fetched", "confirm", "evaluate", "snapshot", "save",
        "verify", "progress0", "progress1", "progress2",
        "progress3", "progress4", "progress5"}

Workers == [pc : PCs, action : Actions, out : Outs, events : Nat]

Runs == [stage : Stages, started : BOOLEAN, preparations : Nat]

Positions == Outs \cup {"none", "ended"}

Generators == [at : Positions, sets : Nat]

\* The types of the invariant, set by set.
LEMMA TypeFacts ==
  TypeOK <=>
    /\ view \in Views /\ commands \subseteq {"do", "cancel"} \X Nat
    /\ deadline \in Deadlines /\ preparations \in Nat
    /\ cancelRequested \in BOOLEAN /\ jobs \in Seq(Actions)
    /\ worker \in Workers /\ run \in Runs /\ gen \in Generators
    /\ flow \in Flows /\ clock \in Nat
BY DEF TypeOK, Views, Deadlines, Workers, PCs, Runs, Generators, Positions

\* The same after a step.
LEMMA TypeFactsNext ==
  TypeOK' <=>
    /\ view' \in Views /\ commands' \subseteq {"do", "cancel"} \X Nat
    /\ deadline' \in Deadlines /\ preparations' \in Nat
    /\ cancelRequested' \in BOOLEAN /\ jobs' \in Seq(Actions)
    /\ worker' \in Workers /\ run' \in Runs /\ gen' \in Generators
    /\ flow' \in Flows /\ clock' \in Nat
BY DEF TypeOK, Views, Deadlines, Workers, PCs, Runs, Generators, Positions

\* The stages with a next action, and that action (_ACTIONS).
LEMMA StageActionFacts ==
  /\ DOMAIN StageAction = {"idle", "query", "reference", "comparison", "final",
                           "attributes"}
  /\ StageAction["idle"] = "start" /\ StageAction["query"] = "reference"
  /\ StageAction["reference"] = "comparison"
  /\ StageAction["comparison"] = "final" /\ StageAction["final"] = "search"
  /\ StageAction["attributes"] = "rank"
BY DEF StageAction

\* Every outcome of a command is shown as a stage (_run, execute).
LEMMA OutStageFacts ==
  ASSUME NEW out \in Outs
  PROVE  /\ OutStage(out) \in Stages \ {"working", "expired"}
         /\ out = "final_skip" => OutStage(out) = "final"
         /\ out \in {"image_failed", "error"} => OutStage(out) = "failed"
         /\ out = "unsaved" => OutStage(out) = "complete"
         /\ out \notin {"final_skip", "image_failed", "error", "unsaved"} =>
              OutStage(out) = out
BY StageActionFacts DEF OutStage, Outs, Stages

\* Expiry changes nothing but the stage and the revision (_expire).
LEMMA ExpiredFacts ==
  ASSUME NEW v \in Views, NEW d \in Deadlines, NEW now \in Nat
  PROVE  LET e == Expired(v, d, now)
         IN  /\ e \in Views /\ e.can = v.can
             /\ e = v \/ (e.stage = "expired" /\ e.revision > v.revision)
             /\ e # v => /\ d # Never
                         /\ v.stage \in DOMAIN StageAction \ {"idle"}
<1>1. PICK x : x = [v EXCEPT !.stage = "expired", !.revision = @ + 1]
  OBVIOUS
<1>2. x = [stage |-> "expired", revision |-> v.revision + 1, can |-> v.can]
  BY <1>1 DEF Views
<1>3. x \in Views /\ x.can = v.can /\ x.stage = "expired"
      /\ x.revision > v.revision
  BY <1>2 DEF Views, Stages
<1>4. \/ Expired(v, d, now) = v
      \/ /\ Expired(v, d, now) = x /\ d # Never
         /\ v.stage \in DOMAIN StageAction \ {"idle"}
  BY <1>1 DEF Expired
<1> QED BY <1>3, <1>4

-----------------------------------------------------------------------------
(* The methods of the flow *)

\* Every method leaves a flow of the right type, adds at most one to a
\* counter, writes no row and answers from the state it names
\* (generate_reference, regenerate_reference).
LEMMA GenerateFacts ==
  ASSUME NEW f \in Flows, NEW states, NEW r \in GenerateReference(f, states)
  PROVE  /\ r.flow \in Flows
         /\ r.flow.saved = f.saved /\ r.flow.derived = f.derived
         /\ r.flow.attempt \in {f.attempt, f.attempt + 1}
         /\ \/ r.flow.state = f.state
            \/ /\ f.state \in states
               /\ r.flow.state \in {"reference_review", "image_failed",
                                    "generating"}
         /\ r.ok => r.flow.state = "reference_review"
         /\ r.flow # f => f.state \in states
<1>1. PICK started : started = [f EXCEPT !.attempt = @ + 1,
                                         !.reference = "none", !.expires = Never]
  OBVIOUS
<1>2. PICK done : done = [started EXCEPT !.state = "reference_review",
                                         !.reference = "held"]
  OBVIOUS
<1>3. PICK failed : failed = [started EXCEPT !.state = "image_failed"]
  OBVIOUS
<1>4. PICK stuck : stuck = [started EXCEPT !.state = "generating"]
  OBVIOUS
<1>5. /\ started \in Flows /\ started.saved = f.saved
      /\ started.derived = f.derived /\ started.attempt = f.attempt + 1
  <2>1. started = [state |-> f.state, images |-> f.images,
                   attempt |-> f.attempt + 1, derived |-> f.derived,
                   reference |-> "none", expires |-> Never, saved |-> f.saved]
    BY <1>1 DEF Flows
  <2> QED
    BY <2>1 DEF Flows, Never
<1>6. /\ done \in Flows /\ done.saved = f.saved /\ done.derived = f.derived
      /\ done.attempt = f.attempt + 1 /\ done.state = "reference_review"
  BY <1>2, <1>5 DEF Flows, FlowStates
<1>7. /\ failed \in Flows /\ failed.saved = f.saved /\ failed.derived = f.derived
      /\ failed.attempt = f.attempt + 1 /\ failed.state = "image_failed"
  BY <1>3, <1>5 DEF Flows, FlowStates
<1>8. /\ stuck \in Flows /\ stuck.saved = f.saved /\ stuck.derived = f.derived
      /\ stuck.attempt = f.attempt + 1 /\ stuck.state = "generating"
  BY <1>4, <1>5 DEF Flows, FlowStates
<1>9. \/ r = Raises(f)
      \/ /\ f.state \in states
         /\ r = Returns(done) \/ r = Raises(failed) \/ r = Raises(stuck)
  BY <1>1, <1>2, <1>3, <1>4 DEF GenerateReference
<1> QED
  BY <1>6, <1>7, <1>8, <1>9 DEF Returns, Raises

\* The same of approve_reference, which derives the comparison images.
LEMMA ApproveReferenceFacts ==
  ASSUME NEW f \in Flows, NEW now \in Nat, NEW r \in ApproveReference(f, now)
  PROVE  /\ r.flow \in Flows
         /\ r.flow.saved = f.saved /\ r.flow.attempt = f.attempt
         /\ r.flow.derived \in {f.derived, f.derived + 1}
         /\ r.flow.state \in {f.state, "images_review", "image_failed", "deriving"}
         /\ r.ok => r.flow.state = "images_review"
         /\ r.flow # f => f.state = "reference_review"
         /\ f.state = "reference_review" /\ ~(f.derived >= MaxAttempts) =>
              r.flow.state \in {"images_review", "image_failed", "deriving"}
<1>1. PICK done : done = [f EXCEPT !.state = "images_review", !.derived = @ + 1,
                                   !.expires = now + ApprovalTTL]
  OBVIOUS
<1>2. PICK failed : failed = [f EXCEPT !.state = "image_failed",
                                       !.derived = @ + 1]
  OBVIOUS
<1>3. PICK stuck : stuck = [f EXCEPT !.state = "deriving", !.derived = @ + 1]
  OBVIOUS
<1>4. now + ApprovalTTL \in Nat /\ f.derived \in Nat
  BY CandidateFlowAssumption DEF Flows
<1>5. /\ done \in Flows /\ done.saved = f.saved /\ done.attempt = f.attempt
      /\ done.derived = f.derived + 1 /\ done.state = "images_review"
  <2>1. done = [state |-> "images_review", images |-> f.images,
               attempt |-> f.attempt, derived |-> f.derived + 1,
               reference |-> f.reference, expires |-> now + ApprovalTTL,
               saved |-> f.saved]
    BY <1>1 DEF Flows
  <2> QED
    BY <1>4, <2>1 DEF Flows, FlowStates
<1>6. /\ failed \in Flows /\ failed.saved = f.saved
      /\ failed.attempt = f.attempt /\ failed.derived = f.derived + 1
      /\ failed.state = "image_failed"
  <2>1. failed = [state |-> "image_failed", images |-> f.images,
               attempt |-> f.attempt, derived |-> f.derived + 1,
               reference |-> f.reference, expires |-> f.expires,
               saved |-> f.saved]
    BY <1>2 DEF Flows
  <2> QED
    BY <2>1 DEF Flows, FlowStates
<1>7. /\ stuck \in Flows /\ stuck.saved = f.saved /\ stuck.attempt = f.attempt
      /\ stuck.derived = f.derived + 1 /\ stuck.state = "deriving"
  <2>1. stuck = [state |-> "deriving", images |-> f.images,
               attempt |-> f.attempt, derived |-> f.derived + 1,
               reference |-> f.reference, expires |-> f.expires,
               saved |-> f.saved]
    BY <1>3 DEF Flows
  <2> QED
    BY <2>1 DEF Flows, FlowStates
<1>8. \/ /\ r = Raises(f)
         /\ f.state # "reference_review" \/ f.derived >= MaxAttempts
      \/ /\ f.state = "reference_review"
         /\ r = Returns(done) \/ r = Raises(failed) \/ r = Raises(stuck)
  BY <1>1, <1>2, <1>3 DEF ApproveReference
<1> QED
  BY <1>4, <1>5, <1>6, <1>7, <1>8 DEF Returns, Raises

\* The same of regenerate_comparisons.
LEMMA RegenerateComparisonsFacts ==
  ASSUME NEW f \in Flows, NEW now \in Nat,
         NEW r \in RegenerateComparisons(f, now)
  PROVE  /\ r.flow \in Flows
         /\ r.flow.saved = f.saved /\ r.flow.attempt = f.attempt
         /\ r.flow.derived \in {f.derived, f.derived + 1}
         /\ r.flow = f \/ r.flow.state \in {"images_review", "image_failed",
                                            "deriving"}
         /\ r.ok => r.flow.state = "images_review"
         /\ r.flow # f => f.state \in {"images_review", "images_approved",
                                      "image_failed"}
<1> DEFINE g == [f EXCEPT !.state = "reference_review", !.expires = Never]
<1>1. /\ g \in Flows /\ g.saved = f.saved /\ g.attempt = f.attempt
      /\ g.derived = f.derived /\ g.state = "reference_review"
  BY DEF Flows, FlowStates, Never
<1>2. \/ r = Raises(f)
      \/ /\ f.state \in {"images_review", "images_approved", "image_failed"}
         /\ ~(f.derived >= MaxAttempts) /\ r \in ApproveReference(g, now)
  BY DEF RegenerateComparisons
<1> HIDE DEF g
<1>3. CASE r \in ApproveReference(g, now) /\ ~(f.derived >= MaxAttempts)
           /\ f.state \in {"images_review", "images_approved", "image_failed"}
  <2>2. /\ r.flow \in Flows
        /\ r.flow.saved = g.saved /\ r.flow.attempt = g.attempt
        /\ r.flow.derived \in {g.derived, g.derived + 1}
        /\ r.flow.state \in {"images_review", "image_failed", "deriving"}
        /\ r.ok => r.flow.state = "images_review"
    BY <1>1, <1>3, ApproveReferenceFacts
  <2> QED
    BY <1>1, <1>3, <2>2
<1> QED BY <1>2, <1>3 DEF Returns, Raises

\* approve_images approves a set that is under review, or not.
LEMMA ApproveImagesFacts ==
  ASSUME NEW f \in Flows, NEW now \in Nat, NEW r \in ApproveImages(f, now)
  PROVE  /\ r.flow \in Flows
         /\ r.flow.saved = f.saved /\ r.flow.attempt = f.attempt
         /\ r.flow.derived = f.derived
         /\ \/ r.flow = f
            \/ /\ f.state = "images_review"
               /\ r.flow.state \in {"images_approved", "failed"}
         /\ r.ok => r.flow.state = "images_approved"
<1>1. PICK done : done = [f EXCEPT !.state = "images_approved"]
  OBVIOUS
<1>2. PICK failed : failed = [f EXCEPT !.state = "failed"]
  OBVIOUS
<1>3. /\ done \in Flows /\ done.saved = f.saved /\ done.attempt = f.attempt
      /\ done.derived = f.derived /\ done.state = "images_approved"
  BY <1>1 DEF Flows, FlowStates
<1>4. /\ failed \in Flows /\ failed.saved = f.saved
      /\ failed.attempt = f.attempt /\ failed.derived = f.derived
      /\ failed.state = "failed"
  BY <1>2 DEF Flows, FlowStates
<1>5. \/ r = Raises(f)
      \/ f.state = "images_review" /\ (r = Returns(done) \/ r = Raises(failed))
  BY <1>1, <1>2 DEF ApproveImages
<1> QED BY <1>3, <1>4, <1>5 DEF Returns, Raises

\* skip_images leaves the images, before the retrieval has begun.
LEMMA SkipImagesFacts ==
  ASSUME NEW f \in Flows, NEW r \in SkipImages(f)
  PROVE  /\ r.flow \in Flows
         /\ r.flow.saved = f.saved /\ r.flow.attempt = f.attempt
         /\ r.flow.derived = f.derived
         /\ r.ok => /\ r.flow.state = "images_skipped"
                    /\ f.state \in {"planned", "reference_review",
                                    "images_review", "images_approved",
                                    "image_failed"}
         /\ ~r.ok => r.flow = f
<1>1. PICK done : done = [f EXCEPT !.state = "images_skipped",
                                   !.reference = "none", !.expires = Never]
  OBVIOUS
<1>2. /\ done \in Flows /\ done.saved = f.saved /\ done.attempt = f.attempt
      /\ done.derived = f.derived /\ done.state = "images_skipped"
  BY <1>1 DEF Flows, FlowStates, Never
<1>3. \/ r = Raises(f)
      \/ /\ f.state \in {"planned", "reference_review", "images_review",
                         "images_approved", "image_failed"}
         /\ r = Returns(done)
  BY <1>1 DEF SkipImages
<1> QED BY <1>2, <1>3 DEF Returns, Raises

\* The phases from the retrieval to the snapshot: each goes on in the next
\* state, or leaves the flow as it was or failed (approve_and_fetch, confirm,
\* complete).
LEMMA PhaseFacts ==
  ASSUME NEW f \in Flows,
         NEW r \in BeginFetch(f) \cup EndFetch(f) \cup Confirm(f)
                     \cup BeginComplete(f) \cup EndComplete(f)
  PROVE  /\ r.flow \in Flows
         /\ r.flow.saved = f.saved /\ r.flow.attempt = f.attempt
         /\ r.flow.derived = f.derived
         /\ ~r.ok => r.flow = f \/ r.flow.state = "failed"
<1> DEFINE To(state) == [f EXCEPT !.state = state]
<1>1. ASSUME NEW state \in FlowStates
      PROVE  /\ To(state) \in Flows /\ To(state).saved = f.saved
             /\ To(state).attempt = f.attempt /\ To(state).derived = f.derived
             /\ To(state).state = state
  BY DEF Flows
<1>2. \/ r = Raises(f) \/ r = Raises(To("failed"))
      \/ \E state \in FlowStates : r = Returns(To(state))
  BY DEF BeginFetch, EndFetch, Confirm, BeginComplete, EndComplete, FlowStates
<1>3. "failed" \in FlowStates
  BY DEF FlowStates
<1> HIDE DEF To
<1> QED BY <1>1, <1>2, <1>3 DEF Returns, Raises

\* A save leaves one row at most, however often it is tried, and completes the
\* flow only with its row (SqliteProvisionalHistoryRepository.save).
LEMMA RetryHistoryFacts ==
  ASSUME NEW f \in Flows, f.saved <= 1, NEW r \in RetryHistory(f)
  PROVE  /\ r.flow \in Flows
         /\ r.flow.attempt = f.attempt /\ r.flow.derived = f.derived
         /\ r.flow.saved <= 1
         /\ r.ok => r.flow.state = "completed" /\ r.flow.saved = 1
         /\ ~r.ok => r.flow.state = f.state
         /\ r.flow.saved # f.saved => f.state = "history_pending"
<1>1. SaveRow(f.saved) = 1
  BY DEF SaveRow, Flows
<1>2. PICK written : written = [f EXCEPT !.saved = 1]
  OBVIOUS
<1>3. PICK done : done = [written EXCEPT !.state = "completed"]
  OBVIOUS
<1>4. /\ written \in Flows /\ written.saved = 1 /\ written.attempt = f.attempt
      /\ written.derived = f.derived /\ written.state = f.state
  BY <1>2 DEF Flows
<1>5. /\ done \in Flows /\ done.saved = 1 /\ done.attempt = f.attempt
      /\ done.derived = f.derived /\ done.state = "completed"
  BY <1>3, <1>4 DEF Flows, FlowStates
<1>6. \/ r = Raises(f)
      \/ /\ f.state = "history_pending"
         /\ r = Returns(done) \/ r = Raises(f) \/ r = Raises(written)
  BY <1>1, <1>2, <1>3 DEF RetryHistory
<1> QED
  BY <1>4, <1>5, <1>6 DEF Returns, Raises

-----------------------------------------------------------------------------
(* How a command goes on and how it ends *)

\* While the worker is at a command nothing is queued and the view says so.
LEMMA BusyFacts ==
  ASSUME IInv, worker.pc # "idle"
  PROVE  jobs = <<>> /\ view.stage = "working"
BY DEF IInv, WorkingIffBusy

\* Outside the retrieval no cancel is offered or in force (progress).
LEMMA NoCancel ==
  ASSUME IInv, worker.pc \notin {"idle", "commit", "fetch", "fetching", "progress1"}
  PROVE  ~cancelRequested /\ "cancel" \notin view.can
BY DEF IInv, CancelInv

\* The run never counts more preparations than the controller, except while a
\* reset is under way.
LEMMA PreparedFacts ==
  ASSUME IInv, worker.pc # "idle",
         worker.pc = "execute" => worker.action # "reset"
  PROVE  run.preparations <= preparations
<1>1. jobs = <<>> /\ run.preparations \in Nat /\ preparations \in Nat
  BY BusyFacts, TypeFacts DEF IInv, Runs
<1>2. CASE worker.pc = "execute"
  BY <1>1, <1>2 DEF IInv, PendingInv, Fits
<1>3. CASE worker.pc # "execute"
  BY <1>1, <1>3 DEF IInv, PendingInv
<1> QED BY <1>2, <1>3

\* The parts of the invariant that only the view and the queue can disturb
\* stand while a command runs.
LEMMA CommandKeeps ==
  ASSUME IInv, worker.pc # "idle", UNCHANGED <<controller, jobs, clock>>,
         worker' \in Workers, run' \in Runs, gen' \in Generators,
         flow' \in Flows, worker'.pc \notin {"idle", "execute"},
         run'.preparations <= preparations
  PROVE  TypeOK' /\ WorkingIffBusy' /\ PendingInv' /\ ViewInv'
<1>1. jobs = <<>> /\ view.stage = "working"
  BY BusyFacts
<1>2. TypeOK'
  BY TypeFacts, TypeFactsNext DEF IInv, controller
<1>3. WorkingIffBusy'
  BY <1>1 DEF IInv, WorkingIffBusy, controller
<1>4. PendingInv'
  BY <1>1 DEF IInv, PendingInv, controller
<1>5. ViewInv'
  BY <1>1 DEF ViewInv, Shows, controller
<1> QED BY <1>2, <1>3, <1>4, <1>5

\* A command that goes on to its next phase keeps the invariant, if the flow
\* is where that phase needs it.
LEMMA GoKeeps ==
  ASSUME IInv, NEW pc \in PCs \ Between, worker.pc \notin {"idle", "commit"},
         worker.pc = "execute" => worker.action # "reset",
         UNCHANGED <<controller, jobs, clock, run, gen>>, GoTo(pc),
         gen.at \in Waits,
         flow' \in Flows, flow'.attempt = flow.attempt,
         flow'.derived = flow.derived, SavedInv', PhaseInv', CancelInv'
  PROVE  IInv'
<1>1. /\ worker \in Workers /\ run \in Runs /\ gen \in Generators
      /\ flow \in Flows
  BY TypeFacts DEF IInv
<1>2. worker' \in Workers /\ worker'.pc = pc
  BY <1>1 DEF GoTo, Workers
<1>3. pc \notin {"idle", "execute", "commit"}
  BY DEF Between
<1>4. run.preparations <= preparations
  BY PreparedFacts
<1>5. TypeOK' /\ WorkingIffBusy' /\ PendingInv' /\ ViewInv'
  BY <1>1, <1>2, <1>3, <1>4, CommandKeeps
<1>6. WaitInv' /\ FlowInv' /\ CommitInv'
  BY <1>2, <1>3 DEF IInv, WaitInv, FlowInv, CommitInv, Between
<1>7. SetsInv'
  BY DEF IInv, SetsInv
<1> QED BY <1>5, <1>6, <1>7 DEF IInv

\* An exception finishes the generator and the command (execute, _run).
LEMMA RaiseKeeps ==
  ASSUME IInv, NEW out \in {"error", "cancelled"},
         worker.pc \notin {"idle", "commit"},
         worker.pc = "execute" => worker.action # "reset",
         UNCHANGED <<controller, jobs, clock>>, Raise(out),
         flow' \in Flows, flow'.attempt <= MaxImageSets,
         flow'.derived <= MaxImageSets, SavedInv', CancelInv', run.started,
         flow'.state # "history_pending"
  PROVE  IInv'
<1>1. /\ worker \in Workers /\ run \in Runs /\ gen \in Generators
  BY TypeFacts DEF IInv
<1>2. /\ worker' \in Workers /\ worker'.pc = "commit" /\ worker'.out = out
  BY <1>1 DEF Raise, EndWith, Workers, PCs, Outs
<1>3. gen' \in Generators /\ gen'.at = "ended" /\ gen'.sets = gen.sets
  BY <1>1 DEF Raise, Generators, Positions
<1>4. run' = run /\ run.preparations <= preparations
  BY PreparedFacts DEF Raise
<1>5. TypeOK' /\ WorkingIffBusy' /\ PendingInv' /\ ViewInv'
  BY <1>1, <1>2, <1>3, <1>4, CommandKeeps
<1>6. WaitInv'
  BY <1>2, <1>3, <1>4 DEF WaitInv, Waits, Between
<1>7. FlowInv' /\ CommitInv' /\ PhaseInv'
  BY <1>2, <1>3 DEF FlowInv, AtYield, CommitInv, PhaseInv, Waits
<1>8. SetsInv'
  BY <1>3 DEF IInv, SetsInv, Waits
<1> QED BY <1>5, <1>6, <1>7, <1>8 DEF IInv

\* A yield ends the command with the view of the stage it stands for, if the
\* flow is where that stage needs it (candidate_browser_steps).
LEMMA YieldKeeps ==
  ASSUME IInv, NEW out \in Waits \cup {"complete"}, NEW sets \in Nat,
         worker.pc \notin {"idle", "commit"},
         worker.pc = "execute" => worker.action # "reset",
         UNCHANGED <<controller, jobs, clock>>, Yield(out, sets), run.started,
         flow' \in Flows, SavedInv', CancelInv', AtYield(out, flow'.state),
         out = "complete" => flow'.state = "completed",
         sets <= MaxImageSets, flow'.attempt <= MaxImageSets,
         flow'.derived <= MaxImageSets,
         out \in Waits => flow'.attempt <= sets /\ flow'.derived <= sets,
         out = "reference" => flow'.derived < sets
  PROVE  IInv'
<1> DEFINE at == IF out = "complete" THEN "ended" ELSE out
<1>1. /\ worker \in Workers /\ run \in Runs /\ gen \in Generators
  BY TypeFacts DEF IInv
<1>2. out \in Outs /\ at \in Positions
  BY DEF Waits, Outs, Positions
<1>3. worker' \in Workers /\ worker'.pc = "commit" /\ worker'.out = out
  BY <1>1, <1>2 DEF Yield, EndWith, Workers, PCs
<1>4. gen' \in Generators /\ gen'.at = at /\ gen'.sets = sets
  BY <1>1, <1>2 DEF Yield, Generators
<1>5. /\ run' \in Runs /\ run'.stage = OutStage(out) /\ run'.started = run.started
      /\ run'.preparations = run.preparations
  BY <1>1, <1>2, OutStageFacts DEF Yield, Runs
<1>6. run.preparations <= preparations
  BY PreparedFacts
<1>7. TypeOK' /\ WorkingIffBusy' /\ PendingInv' /\ ViewInv'
  BY <1>1, <1>3, <1>4, <1>5, <1>6, CommandKeeps
<1>8. WaitInv'
  BY <1>3, <1>4, <1>5 DEF WaitInv, Waits, Between
<1>9. FlowInv'
  BY <1>4 DEF FlowInv, AtYield
<1>10. CommitInv'
  BY <1>3, <1>4 DEF CommitInv, Waits
<1>11. PhaseInv'
  BY <1>3 DEF PhaseInv
<1>12. SetsInv'
  BY <1>4 DEF SetsInv, Waits
<1> QED BY <1>7, <1>8, <1>9, <1>10, <1>11, <1>12 DEF IInv

-----------------------------------------------------------------------------
(* The commands that resume the generator *)

\* What the generator does with a command is decided by the yield it waits at
\* (candidate_browser_steps).
LEMMA ResumptionFacts ==
  ASSUME NEW at \in Positions, NEW a \in Actions
  PROVE  LET s == Resumption(at, a)
         IN  /\ s = "generate" =>
                  \/ at = "query" /\ a = "reference"
                  \/ /\ at \in {"reference", "comparison", "final", "image_failed"}
                     /\ a = "regenerate"
             /\ s = "skip" =>
                  at \in {"query", "reference", "comparison", "final",
                          "image_failed"}
             /\ s = "derive" =>
                  /\ at \in {"comparison", "final", "image_failed"}
                  /\ a = "regenerate_comparisons"
             /\ s = "approve_reference" =>
                  at = "reference" /\ a \notin {"regenerate", "without_images"}
             /\ s = "show_final" => at = "comparison"
             /\ s = "approve_images" =>
                  at = "final" /\ a \notin {"regenerate", "without_images",
                                            "regenerate_comparisons"}
             /\ s = "search" => at = "final_skip"
             /\ s = "rank" => at = "attributes" /\ a = "rank"
             /\ s = "save" => at = "unsaved" /\ a = "retry_save"
BY DEF Resumption

\* A command that resumes the generator fits the yield it waits at, so it is
\* answered by the code after that yield.
LEMMA ResumesFacts ==
  ASSUME IInv, NEW step, Resumes(step)
  PROVE  /\ worker.pc = "execute" /\ UNCHANGED <<controller, jobs, clock>>
         /\ worker.action \notin {"start", "revise", "reset"}
         /\ run.started /\ Resumption(gen.at, worker.action) = step
         /\ Fits(worker.action, preparations) /\ AtYield(gen.at, flow.state)
         /\ ~cancelRequested /\ "cancel" \notin view.can
         /\ gen.at \in Positions /\ worker.action \in Actions
<1>1. worker.pc = "execute" /\ UNCHANGED <<controller, jobs, clock>>
      /\ worker.action \notin {"start", "revise", "reset"}
  BY DEF Resumes, At
<1>2. Fits(worker.action, preparations)
  BY <1>1 DEF IInv, PendingInv
<1>3. run.started
  BY <1>1, <1>2 DEF Fits, IInv, WaitInv
<1>4. Resumption(gen.at, worker.action) = step
  BY <1>3 DEF Resumes
<1>5. AtYield(gen.at, flow.state)
  BY <1>1 DEF IInv, FlowInv, Between
<1>6. ~cancelRequested /\ "cancel" \notin view.can
  BY <1>1, NoCancel
<1>7. gen.at \in Positions /\ worker.action \in Actions
  BY TypeFacts DEF IInv, Generators, Workers
<1> QED BY <1>1, <1>2, <1>3, <1>4, <1>5, <1>6, <1>7

\* Without a cancel there is nothing to keep of one.
LEMMA CancelKeeps ==
  ASSUME ~cancelRequested, "cancel" \notin view.can, UNCHANGED controller
  PROVE  CancelInv'
BY DEF CancelInv, controller

\* An exception that leaves the flow alone finishes the generator: a command
\* it cannot take, or the limit on image sets.
LEMMA RaisesUnchanged ==
  ASSUME IInv, NEW step, Resumes(step), step # "save", Raise("error"),
         flow' = flow
  PROVE  IInv'
<1>1. /\ worker.pc = "execute" /\ UNCHANGED <<controller, jobs, clock>>
      /\ worker.action # "reset" /\ run.started
      /\ ~cancelRequested /\ "cancel" \notin view.can
  BY ResumesFacts
<1>2. flow \in Flows
  BY TypeFacts DEF IInv
<1>3. SavedInv' /\ CancelInv' /\ flow'.attempt <= MaxImageSets
      /\ flow'.derived <= MaxImageSets
  BY <1>1, CancelKeeps DEF IInv, SavedInv, SetsInv
<1>4. gen.at = "unsaved" => step = "save"
  BY ResumesFacts DEF Fits, Resumption
<1>5. flow'.state # "history_pending"
  BY <1>1, <1>4, ResumesFacts DEF AtYield, IInv, WaitInv
<1> QED BY <1>1, <1>2, <1>3, <1>5, RaiseKeeps

\* ResumeRaises: the command is refused by the generator.
LEMMA ResumeRaisesKeeps ==
  ASSUME IInv, ResumeRaises
  PROVE  IInv'
BY RaisesUnchanged DEF ResumeRaises

\* An image call ends at the next review, at a failure that is offered again,
\* or with an exception (the image loop).
LEMMA ImageResultKeeps ==
  ASSUME IInv, NEW step, Resumes(step), NEW results,
         NEW out \in {"reference", "comparison"}, NEW sets \in Nat,
         ImageResult(results, out, sets), sets <= MaxImageSets,
         flow.saved = 0,
         \A r \in results :
            /\ r.flow \in Flows /\ r.flow.saved = flow.saved
            /\ r.flow.state \notin {"completed", "history_pending"}
            /\ r.flow.attempt <= sets /\ r.flow.derived <= sets
            /\ out = "reference" => r.flow.derived < sets
            /\ r.ok => AtYield(out, r.flow.state)
  PROVE  IInv'
<1>1. /\ worker.pc = "execute" /\ UNCHANGED <<controller, jobs, clock>>
      /\ worker.action # "reset" /\ run.started
      /\ ~cancelRequested /\ "cancel" \notin view.can
  BY ResumesFacts
<1>2. PICK r \in results :
        /\ flow' = r.flow
        /\ IF r.ok THEN Yield(out, sets)
           ELSE IF r.flow.state = "image_failed"
           THEN Yield("image_failed", sets) ELSE Raise("error")
  BY DEF ImageResult
<1>3. flow' \in Flows /\ SavedInv' /\ CancelInv'
  BY <1>1, <1>2, CancelKeeps DEF SavedInv
<1>4. /\ flow'.attempt <= sets /\ flow'.derived <= sets
      /\ flow'.attempt <= MaxImageSets /\ flow'.derived <= MaxImageSets
  BY <1>2, <1>3, BrowserSearchAssumption DEF Flows
<1>5. CASE r.ok
  BY <1>1, <1>2, <1>3, <1>4, <1>5, YieldKeeps DEF Waits
<1>6. CASE ~r.ok /\ r.flow.state = "image_failed"
  <2>1. AtYield("image_failed", flow'.state)
    BY <1>2, <1>6 DEF AtYield
  <2> QED
    BY <1>1, <1>2, <1>3, <1>4, <1>6, <2>1, YieldKeeps DEF Waits
<1>7. CASE ~r.ok /\ r.flow.state # "image_failed"
  BY <1>1, <1>2, <1>3, <1>4, <1>7, RaiseKeeps
<1> QED BY <1>5, <1>6, <1>7

\* What is known of the counters before an image call.
LEMMA BeforeImages ==
  ASSUME IInv, gen.at \in {"query", "reference", "comparison", "final",
                           "image_failed"},
         AtYield(gen.at, flow.state)
  PROVE  /\ flow \in Flows /\ flow.saved = 0 /\ gen.sets \in Nat
         /\ gen.sets <= MaxImageSets /\ flow.attempt \in Nat
         /\ flow.derived \in Nat /\ clock \in Nat
         /\ flow.attempt <= gen.sets /\ flow.derived <= gen.sets
         /\ gen.at = "reference" => flow.derived < gen.sets
         /\ flow.state \in {"planned", "reference_review", "images_review",
                            "image_failed"}
<1>1. flow \in Flows /\ gen.sets \in Nat /\ clock \in Nat
  BY TypeFacts DEF IInv, Generators
<1>2. flow.attempt \in Nat /\ flow.derived \in Nat
  BY <1>1 DEF Flows
<1>3. flow.state \in {"planned", "reference_review", "images_review",
                      "image_failed"}
  BY DEF AtYield
<1>4. flow.saved = 0
  BY <1>3 DEF IInv, SavedInv
<1> QED BY <1>1, <1>2, <1>3, <1>4 DEF IInv, SetsInv, Waits

\* ResumeGenerate: a set is begun with a reference image.
LEMMA ResumeGenerateKeeps ==
  ASSUME IInv, ResumeGenerate
  PROVE  IInv'
<1> DEFINE states == IF gen.sets = 0 THEN {"planned"}
                     ELSE {"reference_review", "images_review",
                           "images_approved", "image_failed"}
           results == GenerateReference(flow, states)
<1>1. Resumes("generate") /\ NextSet(results, "reference")
  BY DEF ResumeGenerate
<1>2. /\ gen.at \in {"query", "reference", "comparison", "final", "image_failed"}
      /\ AtYield(gen.at, flow.state)
  BY <1>1, ResumesFacts, ResumptionFacts
<1> HIDE DEF results
<1>3. CASE gen.sets < MaxImageSets
  <2>1. ImageResult(results, "reference", gen.sets + 1)
    BY <1>1, <1>3 DEF NextSet
  <2>2. ASSUME NEW r \in results
        PROVE  /\ r.flow \in Flows /\ r.flow.saved = flow.saved
               /\ r.flow.state \notin {"completed", "history_pending"}
               /\ r.flow.attempt <= gen.sets + 1
               /\ r.flow.derived < gen.sets + 1
               /\ r.ok => r.flow.state = "reference_review"
    BY <1>2, BeforeImages, GenerateFacts DEF results
  <2>3. gen.sets + 1 \in Nat /\ gen.sets + 1 <= MaxImageSets /\ flow.saved = 0
    BY <1>2, <1>3, BeforeImages, BrowserSearchAssumption
  <2>4. ASSUME NEW r \in results
        PROVE  r.flow.derived <= gen.sets + 1
    BY <1>2, <2>2, BeforeImages DEF Flows
  <2>5. AtYield("reference", "reference_review")
    BY DEF AtYield
  <2> QED
    BY <1>1, <2>1, <2>2, <2>3, <2>4, <2>5, ImageResultKeeps
<1>4. CASE ~(gen.sets < MaxImageSets)
  <2>1. Raise("error") /\ flow' = flow
    BY <1>1, <1>4 DEF NextSet
  <2> QED
    BY <1>1, <2>1, RaisesUnchanged
<1> QED BY <1>3, <1>4

\* ResumeDerive: the comparison images of a new set.
LEMMA ResumeDeriveKeeps ==
  ASSUME IInv, ResumeDerive
  PROVE  IInv'
<1> DEFINE results == RegenerateComparisons(flow, clock)
<1>1. Resumes("derive") /\ NextSet(results, "comparison")
  BY DEF ResumeDerive
<1>2. /\ gen.at \in {"comparison", "final", "image_failed"}
      /\ AtYield(gen.at, flow.state)
  BY <1>1, ResumesFacts, ResumptionFacts
<1> HIDE DEF results
<1>3. CASE gen.sets < MaxImageSets
  <2>1. ImageResult(results, "comparison", gen.sets + 1)
    BY <1>1, <1>3 DEF NextSet
  <2>2. ASSUME NEW r \in results
        PROVE  /\ r.flow \in Flows /\ r.flow.saved = flow.saved
               /\ r.flow.state \notin {"completed", "history_pending"}
               /\ r.flow.attempt <= gen.sets + 1
               /\ r.flow.derived <= gen.sets + 1
               /\ r.ok => r.flow.state = "images_review"
    BY <1>2, BeforeImages, RegenerateComparisonsFacts DEF results
  <2>3. gen.sets + 1 \in Nat /\ gen.sets + 1 <= MaxImageSets /\ flow.saved = 0
    BY <1>2, <1>3, BeforeImages, BrowserSearchAssumption
  <2>4. AtYield("comparison", "images_review")
    BY DEF AtYield
  <2> QED
    BY <1>1, <2>1, <2>2, <2>3, <2>4, ImageResultKeeps
<1>4. CASE ~(gen.sets < MaxImageSets)
  <2>1. Raise("error") /\ flow' = flow
    BY <1>1, <1>4 DEF NextSet
  <2> QED
    BY <1>1, <2>1, RaisesUnchanged
<1> QED BY <1>3, <1>4

\* ResumeApproveReference: the comparison images of the set that was begun.
LEMMA ResumeApproveReferenceKeeps ==
  ASSUME IInv, ResumeApproveReference
  PROVE  IInv'
<1> DEFINE results == ApproveReference(flow, clock)
<1>1. /\ Resumes("approve_reference")
      /\ ImageResult(results, "comparison", gen.sets)
  BY DEF ResumeApproveReference
<1>2. gen.at = "reference" /\ AtYield(gen.at, flow.state)
  BY <1>1, ResumesFacts, ResumptionFacts
<1> HIDE DEF results
<1>3. ASSUME NEW r \in results
      PROVE  /\ r.flow \in Flows /\ r.flow.saved = flow.saved
             /\ r.flow.state \notin {"completed", "history_pending"}
             /\ r.flow.attempt <= gen.sets /\ r.flow.derived <= gen.sets
             /\ r.ok => r.flow.state = "images_review"
  BY <1>2, BeforeImages, ApproveReferenceFacts DEF results
<1>4. gen.sets \in Nat /\ gen.sets <= MaxImageSets /\ flow.saved = 0
  BY <1>2, BeforeImages
<1>5. AtYield("comparison", "images_review")
  BY DEF AtYield
<1> QED
  BY <1>1, <1>3, <1>4, <1>5, ImageResultKeeps

\* ResumeShowFinal: the last review of the same images.
LEMMA ResumeShowFinalKeeps ==
  ASSUME IInv, ResumeShowFinal
  PROVE  IInv'
<1>1. Resumes("show_final") /\ Yield("final", gen.sets) /\ flow' = flow
  BY DEF ResumeShowFinal
<1>2. gen.at = "comparison" /\ AtYield(gen.at, flow.state)
  BY <1>1, ResumesFacts, ResumptionFacts
<1>3. AtYield("final", flow'.state)
  BY <1>1, <1>2 DEF AtYield
<1>4. /\ flow' \in Flows /\ gen.sets \in Nat /\ gen.sets <= MaxImageSets
      /\ flow'.attempt <= gen.sets /\ flow'.derived <= gen.sets
      /\ flow'.attempt <= MaxImageSets /\ flow'.derived <= MaxImageSets
      /\ SavedInv'
  BY <1>1, <1>2, BeforeImages DEF IInv, SetsInv, SavedInv
<1>5. CancelInv' /\ worker.pc = "execute" /\ worker.action # "reset"
      /\ UNCHANGED <<controller, jobs, clock>> /\ run.started
  BY <1>1, ResumesFacts, CancelKeeps
<1> QED
  BY <1>1, <1>3, <1>4, <1>5, YieldKeeps DEF Waits

\* ResumeSkip: the images are left out.
LEMMA ResumeSkipKeeps ==
  ASSUME IInv, ResumeSkip
  PROVE  IInv'
<1>1. Resumes("skip")
  BY DEF ResumeSkip
<1>2. PICK r \in SkipImages(flow) :
        /\ flow' = r.flow
        /\ IF r.ok THEN Yield("final_skip", gen.sets) ELSE Raise("error")
  BY DEF ResumeSkip
<1>3. /\ gen.at \in {"query", "reference", "comparison", "final", "image_failed"}
      /\ AtYield(gen.at, flow.state)
  BY <1>1, ResumesFacts, ResumptionFacts
<1>4. CASE ~r.ok
  BY <1>1, <1>2, <1>3, <1>4, BeforeImages, SkipImagesFacts, RaisesUnchanged
<1>5. CASE r.ok
  <2>1. /\ flow' \in Flows /\ flow'.state = "images_skipped"
        /\ flow'.saved = 0 /\ flow'.attempt = flow.attempt
        /\ flow'.derived = flow.derived
    BY <1>2, <1>3, <1>5, BeforeImages, SkipImagesFacts
  <2>2. AtYield("final_skip", flow'.state) /\ SavedInv'
    BY <2>1 DEF AtYield, SavedInv
  <2>3. /\ gen.sets \in Nat /\ gen.sets <= MaxImageSets
        /\ flow'.attempt <= gen.sets /\ flow'.derived <= gen.sets
        /\ flow'.attempt <= MaxImageSets /\ flow'.derived <= MaxImageSets
    BY <1>3, <2>1, BeforeImages DEF IInv, SetsInv
  <2>4. CancelInv' /\ worker.pc = "execute" /\ worker.action # "reset"
        /\ UNCHANGED <<controller, jobs, clock>> /\ run.started
    BY <1>1, ResumesFacts, CancelKeeps
  <2> QED
    BY <1>2, <1>5, <2>1, <2>2, <2>3, <2>4, YieldKeeps DEF Waits
<1> QED BY <1>4, <1>5

\* A command that starts with its phases goes on with an unchanged generator.
LEMMA EnterPhase ==
  ASSUME IInv, NEW step, Resumes(step), gen.at \in Waits,
         NEW pc \in {"progress0", "progress2", "save"}, GoTo(pc),
         UNCHANGED <<run, gen>>, flow' \in Flows, flow'.saved = flow.saved,
         flow'.attempt = flow.attempt, flow'.derived = flow.derived,
         flow'.state # "completed",
         flow.saved = 0 \/ flow'.state = "history_pending",
         pc = "progress0" =>
            /\ worker.action = "search"
            /\ flow'.state \in {"images_approved", "images_skipped"},
         pc = "progress2" =>
            worker.action = "rank" /\ flow'.state = "attribute_review",
         pc = "save" =>
            worker.action = "retry_save" /\ flow'.state = "history_pending"
  PROVE  IInv'
<1>1. /\ worker.pc = "execute" /\ UNCHANGED <<controller, jobs, clock>>
      /\ worker.action # "reset" /\ CancelInv'
  BY ResumesFacts, CancelKeeps
<1>2. worker'.pc = pc /\ worker'.action = worker.action
  BY TypeFacts DEF GoTo, IInv, Workers
<1>3. PhaseInv'
  BY <1>2 DEF PhaseInv
<1>4. SavedInv'
  BY DEF IInv, SavedInv
<1>5. pc \in PCs \ Between
  BY DEF PCs, Between
<1> QED
  BY <1>1, <1>3, <1>4, <1>5, GoKeeps

\* ResumeSearch: the images are approved or were skipped, the retrieval begins.
LEMMA ResumeSearchKeeps ==
  ASSUME IInv, ResumeSearch
  PROVE  IInv'
<1>1. CASE Resumes("search") /\ GoTo("progress0") /\ UNCHANGED session
  <2>1. gen.at = "final_skip" /\ AtYield(gen.at, flow.state)
        /\ Fits(worker.action, preparations)
        /\ worker.action \notin {"start", "revise", "reset"}
    BY <1>1, ResumesFacts, ResumptionFacts
  <2>2. flow.state = "images_skipped" /\ worker.action = "search"
    BY <2>1 DEF AtYield, Fits
  <2>3. flow' = flow /\ UNCHANGED <<run, gen>> /\ flow' \in Flows
        /\ flow.saved = 0
    BY <1>1, <2>2, TypeFacts DEF session, IInv, SavedInv
  <2> QED
    BY <1>1, <2>1, <2>2, <2>3, EnterPhase DEF Waits
<1>2. CASE Resumes("approve_images")
           /\ Phase(ApproveImages(flow, clock), "progress0")
  <2>1. gen.at = "final" /\ AtYield(gen.at, flow.state)
        /\ Fits(worker.action, preparations)
        /\ worker.action \notin {"start", "revise", "reset", "without_images",
                                 "regenerate", "regenerate_comparisons"}
    BY <1>2, ResumesFacts, ResumptionFacts
  <2>2. flow.state = "images_review" /\ worker.action = "search"
    BY <2>1 DEF AtYield, Fits
  <2>3. PICK r \in ApproveImages(flow, clock) :
          /\ flow' = r.flow
          /\ IF r.ok THEN GoTo("progress0") /\ UNCHANGED <<run, gen>>
             ELSE Raise("error")
    BY <1>2 DEF Phase
  <2>4. flow \in Flows /\ flow.saved = 0 /\ clock \in Nat
    BY <2>2, TypeFacts DEF IInv, SavedInv
  <2>5. /\ flow' \in Flows /\ flow'.saved = 0 /\ flow'.attempt = flow.attempt
        /\ flow'.derived = flow.derived
        /\ flow'.state \in {"images_review", "images_approved", "failed"}
        /\ r.ok => flow'.state = "images_approved"
    BY <2>2, <2>3, <2>4, ApproveImagesFacts
  <2>6. CASE r.ok
    BY <1>2, <2>1, <2>2, <2>3, <2>4, <2>5, <2>6, EnterPhase DEF Waits
  <2>7. CASE ~r.ok
    <3>1. /\ worker.pc = "execute" /\ UNCHANGED <<controller, jobs, clock>>
          /\ worker.action # "reset" /\ CancelInv' /\ run.started
      BY <1>2, ResumesFacts, CancelKeeps
    <3>2. /\ flow'.attempt <= MaxImageSets /\ flow'.derived <= MaxImageSets
          /\ SavedInv'
      BY <2>5 DEF IInv, SetsInv, SavedInv
    <3> QED
      BY <2>3, <2>5, <2>7, <3>1, <3>2, RaiseKeeps
  <2> QED BY <2>6, <2>7
<1> QED BY <1>1, <1>2 DEF ResumeSearch

\* ResumeRank: the attributes were selected.
LEMMA ResumeRankKeeps ==
  ASSUME IInv, ResumeRank
  PROVE  IInv'
<1>1. Resumes("rank") /\ GoTo("progress2") /\ UNCHANGED session
  BY DEF ResumeRank
<1>2. gen.at = "attributes" /\ AtYield(gen.at, flow.state)
      /\ worker.action = "rank"
  BY <1>1, ResumesFacts, ResumptionFacts
<1>3. flow.state = "attribute_review"
  BY <1>2 DEF AtYield
<1>4. flow' = flow /\ UNCHANGED <<run, gen>> /\ flow' \in Flows
      /\ flow.saved = 0
  BY <1>1, <1>3, TypeFacts DEF session, IInv, SavedInv
<1> QED
  BY <1>1, <1>2, <1>3, <1>4, EnterPhase DEF Waits

\* ResumeSave: the result that is shown is saved once more.
LEMMA ResumeSaveKeeps ==
  ASSUME IInv, ResumeSave
  PROVE  IInv'
<1>1. Resumes("save") /\ GoTo("save") /\ UNCHANGED session
  BY DEF ResumeSave
<1>2. gen.at = "unsaved" /\ AtYield(gen.at, flow.state)
      /\ worker.action = "retry_save"
  BY <1>1, ResumesFacts, ResumptionFacts
<1>3. flow.state = "history_pending"
  BY <1>2 DEF AtYield
<1>4. flow' = flow /\ UNCHANGED <<run, gen>> /\ flow' \in Flows
  BY <1>1, TypeFacts DEF session, IInv
<1> QED
  BY <1>1, <1>2, <1>3, <1>4, EnterPhase DEF Waits

-----------------------------------------------------------------------------
(* The phases *)

\* Inside a command the generator is alive and its counters are bounded.
LEMMA InsideFacts ==
  ASSUME IInv, worker.pc \notin Between
  PROVE  /\ gen.at \in Waits /\ run.started /\ flow \in Flows
         /\ gen.sets \in Nat /\ gen.sets <= MaxImageSets
         /\ flow.attempt <= MaxImageSets /\ flow.derived <= MaxImageSets
         /\ flow.attempt <= gen.sets /\ flow.derived <= gen.sets
         /\ worker.pc \notin {"idle", "execute", "commit"}
         /\ preparations \in Nat /\ worker \in Workers
BY TypeFacts DEF IInv, WaitInv, SetsInv, Waits, Generators, Between

\* A phase of the flow that is done goes on, one that fails ends the command.
LEMMA PhaseKeeps ==
  ASSUME IInv, worker.pc \notin Between, At(worker.pc), NEW results,
         NEW pc \in PCs \ Between, Phase(results, pc),
         \A r \in results :
            /\ r.flow \in Flows /\ r.flow.saved = flow.saved
            /\ r.flow.attempt = flow.attempt /\ r.flow.derived = flow.derived
            /\ r.flow.state # "completed"
            /\ ~r.ok => r.flow.state # "history_pending"
            /\ flow.saved = 0 \/ r.flow.state = "history_pending",
         \A r \in results : r.ok /\ flow' = r.flow /\ GoTo(pc) => PhaseInv',
         \A r \in results : ~r.ok /\ worker.pc \in {"fetch", "fetching"} =>
            worker.pc = "fetching" /\ r.flow.state = "failed",
         worker.pc # "progress1", worker.pc = "fetch" => pc = "fetching",
         worker.pc = "fetching" => pc = "progress1"
  PROVE  IInv'
<1>1. PICK r \in results :
        /\ flow' = r.flow
        /\ IF r.ok THEN GoTo(pc) /\ UNCHANGED <<run, gen>> ELSE Raise("error")
  BY DEF Phase
<1>2. UNCHANGED <<controller, jobs, clock>>
  BY DEF At
<1>3. /\ flow' \in Flows /\ flow'.attempt = flow.attempt
      /\ flow'.derived = flow.derived /\ SavedInv'
  BY <1>1 DEF SavedInv, IInv
<1>4. CASE r.ok
  <2>1. PhaseInv'
    BY <1>1, <1>4
  <2>2. worker'.pc = pc /\ worker'.out = worker.out
    BY <1>1, <1>4, InsideFacts DEF GoTo, Workers
  <2>3. CancelInv'
    BY <1>2, <2>2, InsideFacts DEF IInv, CancelInv, controller
  <2> QED
    BY <1>1, <1>2, <1>3, <1>4, <2>1, <2>3, InsideFacts, GoKeeps
<1>5. CASE ~r.ok
  <2>1. worker'.pc = "commit" /\ worker'.out = "error"
    BY <1>1, <1>5, InsideFacts DEF Raise, EndWith, Workers
  <2>2. CancelInv'
    <3>1. CASE worker.pc = "fetching"
      BY <1>1, <1>2, <1>5, <2>1, <3>1, InsideFacts
         DEF IInv, CancelInv, controller
    <3>2. CASE worker.pc # "fetching"
      BY <1>1, <1>2, <1>5, <3>2, InsideFacts, NoCancel, CancelKeeps
    <3> QED BY <3>1, <3>2
  <2> QED
    BY <1>1, <1>2, <1>3, <1>5, <2>2, InsideFacts, RaiseKeeps
<1> QED BY <1>4, <1>5

\* Fetch: the product call begins.
LEMMA FetchKeeps ==
  ASSUME IInv, Fetch
  PROVE  IInv'
<1>1. worker.pc = "fetch" /\ At(worker.pc) /\ Phase(BeginFetch(flow), "fetching")
  BY DEF Fetch, At
<1>2. flow.state \in {"images_approved", "images_skipped"} /\ flow.saved = 0
      /\ worker.action = "search"
  BY <1>1 DEF IInv, PhaseInv, SavedInv
<1>3. worker.pc \notin Between /\ "fetching" \in PCs \ Between
  BY <1>1 DEF Between, PCs
<1>4. flow \in Flows /\ worker \in Workers
  BY <1>3, InsideFacts
<1>5. ASSUME NEW r \in BeginFetch(flow)
      PROVE  r.ok = TRUE /\ r.flow.state = "fetching"
  BY <1>2, <1>4 DEF BeginFetch, Returns, Flows
<1>6. ASSUME NEW r \in BeginFetch(flow)
      PROVE  /\ r.flow \in Flows /\ r.flow.saved = 0
             /\ r.flow.attempt = flow.attempt /\ r.flow.derived = flow.derived
  BY <1>2, <1>4, PhaseFacts
<1>7. ASSUME NEW r \in BeginFetch(flow), flow' = r.flow, GoTo("fetching")
      PROVE  PhaseInv'
  <2>1. worker'.pc = "fetching" /\ worker'.action = "search"
    BY <1>2, <1>4, <1>7 DEF GoTo, Workers
  <2> QED
    BY <1>5, <1>7, <2>1 DEF PhaseInv
<1> QED
  BY <1>1, <1>2, <1>3, <1>5, <1>6, <1>7, PhaseKeeps

\* Fetched: the products arrive, or the provider fails.
LEMMA FetchedKeeps ==
  ASSUME IInv, Fetched
  PROVE  IInv'
<1>1. worker.pc = "fetching" /\ At(worker.pc)
      /\ Phase(EndFetch(flow), "progress1")
  BY DEF Fetched, At
<1>2. flow.state = "fetching" /\ flow.saved = 0 /\ worker.action = "search"
  BY <1>1 DEF IInv, PhaseInv, SavedInv
<1>3. worker.pc \notin Between /\ "progress1" \in PCs \ Between
  BY <1>1 DEF Between, PCs
<1>4. flow \in Flows /\ worker \in Workers
  BY <1>3, InsideFacts
<1>5. ASSUME NEW r \in EndFetch(flow)
      PROVE  /\ r.ok => r.flow.state = "attribute_review"
             /\ ~r.ok => r.flow.state = "failed"
             /\ r.flow.state # "completed"
  BY <1>4 DEF EndFetch, Returns, Raises, Flows
<1>6. ASSUME NEW r \in EndFetch(flow)
      PROVE  /\ r.flow \in Flows /\ r.flow.saved = 0
             /\ r.flow.attempt = flow.attempt /\ r.flow.derived = flow.derived
  BY <1>2, <1>4, PhaseFacts
<1>7. ASSUME NEW r \in EndFetch(flow), r.ok, flow' = r.flow, GoTo("progress1")
      PROVE  PhaseInv'
  <2>1. worker'.pc = "progress1" /\ worker'.action = "search"
    BY <1>2, <1>4, <1>7 DEF GoTo, Workers
  <2> QED
    BY <1>5, <1>7, <2>1 DEF PhaseInv
<1> QED
  BY <1>1, <1>2, <1>3, <1>5, <1>6, <1>7, PhaseKeeps

\* ConfirmAttributes: the selections are confirmed.
LEMMA ConfirmKeeps ==
  ASSUME IInv, ConfirmAttributes
  PROVE  IInv'
<1>1. worker.pc = "confirm" /\ At(worker.pc) /\ Phase(Confirm(flow), "progress3")
  BY DEF ConfirmAttributes, At
<1>2. flow.state = "attribute_review" /\ flow.saved = 0
      /\ worker.action \in {"search", "rank"}
  BY <1>1 DEF IInv, PhaseInv, SavedInv
<1>3. worker.pc \notin Between /\ "progress3" \in PCs \ Between
  BY <1>1 DEF Between, PCs
<1>4. flow \in Flows /\ worker \in Workers
  BY <1>3, InsideFacts
<1>5. ASSUME NEW r \in Confirm(flow)
      PROVE  /\ r.ok => r.flow.state = "confirmed"
             /\ r.flow.state # "completed"
             /\ ~r.ok => r.flow.state # "history_pending"
  BY <1>2, <1>4 DEF Confirm, Returns, Raises, Flows
<1>6. ASSUME NEW r \in Confirm(flow)
      PROVE  /\ r.flow \in Flows /\ r.flow.saved = 0
             /\ r.flow.attempt = flow.attempt /\ r.flow.derived = flow.derived
  BY <1>2, <1>4, PhaseFacts
<1>7. ASSUME NEW r \in Confirm(flow), r.ok, flow' = r.flow, GoTo("progress3")
      PROVE  PhaseInv'
  <2>1. worker'.pc = "progress3" /\ worker'.action = worker.action
    BY <1>4, <1>7 DEF GoTo, Workers
  <2> QED
    BY <1>2, <1>5, <1>7, <2>1 DEF PhaseInv
<1> QED
  BY <1>1, <1>2, <1>3, <1>5, <1>6, <1>7, PhaseKeeps

\* Evaluate: the products are evaluated and ranked.
LEMMA EvaluateKeeps ==
  ASSUME IInv, Evaluate
  PROVE  IInv'
<1>1. worker.pc = "evaluate" /\ At(worker.pc)
      /\ Phase(BeginComplete(flow), "progress4")
  BY DEF Evaluate, At
<1>2. flow.state = "confirmed" /\ flow.saved = 0
      /\ worker.action \in {"search", "rank"}
  BY <1>1 DEF IInv, PhaseInv, SavedInv
<1>3. worker.pc \notin Between /\ "progress4" \in PCs \ Between
  BY <1>1 DEF Between, PCs
<1>4. flow \in Flows /\ worker \in Workers
  BY <1>3, InsideFacts
<1>5. ASSUME NEW r \in BeginComplete(flow)
      PROVE  /\ r.ok => r.flow.state = "evaluating"
             /\ r.flow.state # "completed"
             /\ ~r.ok => r.flow.state # "history_pending"
  BY <1>2, <1>4 DEF BeginComplete, Returns, Raises, Flows
<1>6. ASSUME NEW r \in BeginComplete(flow)
      PROVE  /\ r.flow \in Flows /\ r.flow.saved = 0
             /\ r.flow.attempt = flow.attempt /\ r.flow.derived = flow.derived
  BY <1>2, <1>4, PhaseFacts
<1>7. ASSUME NEW r \in BeginComplete(flow), r.ok, flow' = r.flow,
             GoTo("progress4")
      PROVE  PhaseInv'
  <2>1. worker'.pc = "progress4" /\ worker'.action = worker.action
    BY <1>4, <1>7 DEF GoTo, Workers
  <2> QED
    BY <1>2, <1>5, <1>7, <2>1 DEF PhaseInv
<1> QED
  BY <1>1, <1>2, <1>3, <1>5, <1>6, <1>7, PhaseKeeps

\* TakeSnapshot: the history is put together.
LEMMA TakeSnapshotKeeps ==
  ASSUME IInv, TakeSnapshot
  PROVE  IInv'
<1>1. worker.pc = "snapshot" /\ At(worker.pc) /\ Phase(EndComplete(flow), "save")
  BY DEF TakeSnapshot, At
<1>2. flow.state = "evaluating" /\ flow.saved = 0
      /\ worker.action \in {"search", "rank"}
  BY <1>1 DEF IInv, PhaseInv, SavedInv
<1>3. worker.pc \notin Between /\ "save" \in PCs \ Between
  BY <1>1 DEF Between, PCs
<1>4. flow \in Flows /\ worker \in Workers
  BY <1>3, InsideFacts
<1>5. ASSUME NEW r \in EndComplete(flow)
      PROVE  /\ r.ok => r.flow.state = "history_pending"
             /\ r.flow.state # "completed"
             /\ ~r.ok => r.flow.state # "history_pending"
  BY <1>4 DEF EndComplete, Returns, Raises, Flows
<1>6. ASSUME NEW r \in EndComplete(flow)
      PROVE  /\ r.flow \in Flows /\ r.flow.saved = 0
             /\ r.flow.attempt = flow.attempt /\ r.flow.derived = flow.derived
  BY <1>2, <1>4, PhaseFacts
<1>7. ASSUME NEW r \in EndComplete(flow), r.ok, flow' = r.flow, GoTo("save")
      PROVE  PhaseInv'
  <2>1. worker'.pc = "save" /\ worker'.action = worker.action
    BY <1>4, <1>7 DEF GoTo, Workers
  <2> QED
    BY <1>2, <1>5, <1>7, <2>1 DEF PhaseInv
<1> QED
  BY <1>1, <1>2, <1>3, <1>5, <1>6, <1>7, PhaseKeeps

\* Save: the history is saved, or waits for another try.
LEMMA SaveKeeps ==
  ASSUME IInv, Save
  PROVE  IInv'
<1>1. worker.pc = "save" /\ UNCHANGED <<controller, jobs, clock>>
  BY DEF Save, At
<1>2. PICK r \in RetryHistory(flow) :
        /\ flow' = r.flow
        /\ IF r.ok THEN GoTo("progress5") /\ UNCHANGED <<run, gen>>
           ELSE IF r.flow.state = "history_pending"
           THEN Yield("unsaved", gen.sets) ELSE Raise("error")
  BY DEF Save
<1>3. worker.pc \notin Between /\ flow.state = "history_pending"
      /\ flow.saved <= 1
  BY <1>1 DEF IInv, PhaseInv, SavedInv, Between
<1>4. /\ flow' \in Flows /\ flow'.attempt = flow.attempt
      /\ flow'.derived = flow.derived /\ flow'.saved <= 1
      /\ r.ok => flow'.state = "completed" /\ flow'.saved = 1
      /\ ~r.ok => flow'.state = "history_pending"
  BY <1>2, <1>3, InsideFacts, RetryHistoryFacts
<1>5. SavedInv'
  BY <1>4 DEF SavedInv
<1>6. CancelInv'
  BY <1>1, NoCancel, CancelKeeps
<1>7. CASE r.ok
  <2>1. worker'.pc = "progress5" /\ GoTo("progress5")
    BY <1>2, <1>3, <1>7, InsideFacts DEF GoTo, Workers
  <2>2. PhaseInv' /\ "progress5" \in PCs \ Between
    BY <1>4, <1>7, <2>1 DEF PhaseInv, PCs, Between
  <2> QED
    BY <1>1, <1>2, <1>3, <1>4, <1>5, <1>6, <1>7, <2>1, <2>2, InsideFacts,
       GoKeeps
<1>8. CASE ~r.ok
  <2>1. Yield("unsaved", gen.sets) /\ AtYield("unsaved", flow'.state)
    BY <1>2, <1>4, <1>8 DEF AtYield
  <2> QED
    BY <1>1, <1>3, <1>4, <1>5, <1>6, <2>1, InsideFacts, YieldKeeps DEF Waits
<1> QED BY <1>7, <1>8

\* Verify: the saved history is read back.
LEMMA VerifyKeeps ==
  ASSUME IInv, Verify
  PROVE  IInv'
<1>1. /\ worker.pc = "verify" /\ UNCHANGED <<controller, jobs, clock>>
      /\ flow' = flow /\ (Yield("complete", gen.sets) \/ Raise("error"))
  BY DEF Verify, At
<1>2. worker.pc \notin Between /\ flow.state = "completed"
  BY <1>1 DEF IInv, PhaseInv, Between
<1>3. SavedInv' /\ CancelInv'
  BY <1>1, NoCancel, CancelKeeps DEF IInv, SavedInv
<1>4. AtYield("complete", flow'.state)
  BY <1>1, <1>2 DEF AtYield
<1>5. CASE Raise("error")
  BY <1>1, <1>2, <1>3, <1>5, InsideFacts, RaiseKeeps
<1>6. CASE Yield("complete", gen.sets)
  BY <1>1, <1>2, <1>3, <1>4, <1>6, InsideFacts, YieldKeeps DEF Waits
<1> QED BY <1>1, <1>5, <1>6

\* Review: there are attributes to choose, or the search goes on.
LEMMA ReviewKeeps ==
  ASSUME IInv, Review
  PROVE  IInv'
<1>1. /\ worker.pc = "fetched" /\ UNCHANGED <<controller, jobs, clock>>
      /\ flow' = flow
      /\ Yield("attributes", gen.sets)
           \/ (GoTo("progress2") /\ UNCHANGED <<run, gen>>)
  BY DEF Review, At
<1>2. /\ worker.pc \notin Between /\ flow.state = "attribute_review"
      /\ worker.action = "search"
  BY <1>1 DEF IInv, PhaseInv, Between
<1>3. SavedInv' /\ CancelInv'
  BY <1>1, NoCancel, CancelKeeps DEF IInv, SavedInv
<1>4. AtYield("attributes", flow'.state)
  BY <1>1, <1>2 DEF AtYield
<1>5. CASE Yield("attributes", gen.sets)
  BY <1>1, <1>2, <1>3, <1>4, <1>5, InsideFacts, YieldKeeps DEF Waits
<1>6. CASE GoTo("progress2") /\ UNCHANGED <<run, gen>>
  <2>1. worker'.pc = "progress2" /\ worker'.action = "search"
    BY <1>2, <1>6, InsideFacts DEF GoTo, Workers
  <2>2. PhaseInv' /\ "progress2" \in PCs \ Between
    BY <1>1, <1>2, <2>1 DEF PhaseInv, PCs, Between
  <2> QED
    BY <1>1, <1>2, <1>3, <1>6, <2>2, InsideFacts, GoKeeps
<1> QED BY <1>1, <1>5, <1>6

-----------------------------------------------------------------------------
(* The calls of progress() *)

\* What progress() makes of the view: a later revision of the same stage.
LEMMA ProgressedFacts ==
  ASSUME IInv, NEW fetching \in BOOLEAN, NEW step \in Nat
  PROVE  LET v == Progressed(fetching, step)
         IN  /\ v \in Views /\ v.stage = view.stage
             /\ v.revision = view.revision + 1
             /\ "cancel" \in v.can <=> Cancellable(fetching, step)
<1>1. view \in Views
  BY TypeFacts DEF IInv
<1>2. PICK can : can = IF Cancellable(fetching, step)
                       THEN view.can \cup {"cancel"} ELSE view.can \ {"cancel"}
  OBVIOUS
<1>3. can \in SUBSET Flags /\ ("cancel" \in can <=> Cancellable(fetching, step))
  BY <1>1, <1>2 DEF Views, Flags
<1>4. PICK v : v = Progressed(fetching, step)
  OBVIOUS
<1>5. v = [view EXCEPT !.revision = @ + 1, !.can = can]
  BY <1>1, <1>2, <1>4 DEF Progressed, Views
<1>6. v = [stage |-> view.stage, revision |-> view.revision + 1, can |-> can]
  BY <1>1, <1>5 DEF Views
<1> QED
  BY <1>1, <1>3, <1>4, <1>6 DEF Views

\* A progress() that does not end the command shows the next phase.
LEMMA ProceedKeeps ==
  ASSUME IInv, NEW fetching \in BOOLEAN, NEW step \in Nat,
         worker.pc \notin Between,
         view' = Progressed(fetching, step),
         UNCHANGED <<commands, deadline, preparations, cancelRequested, jobs,
                     session, clock>>,
         worker' \in Workers, worker'.pc \notin Between, PhaseInv',
         Cancellable(fetching, step) =>
            worker'.pc \in {"fetch", "fetching", "progress1"},
         cancelRequested => worker'.pc \in {"fetch", "fetching", "progress1"}
  PROVE  IInv'
<1>1. jobs = <<>> /\ view.stage = "working"
  BY InsideFacts, BusyFacts
<1>2. view' \in Views /\ view'.stage = "working"
      /\ ("cancel" \in view'.can <=> Cancellable(fetching, step))
  BY <1>1, ProgressedFacts
<1>3. /\ worker.pc \notin {"idle", "execute", "commit"}
      /\ worker'.pc \notin {"idle", "execute", "commit"}
  BY DEF Between
<1>4. run' = run /\ gen' = gen /\ flow' = flow
  BY DEF session
<1>5. TypeOK'
  BY <1>2, <1>4, TypeFacts, TypeFactsNext DEF IInv
<1>6. WorkingIffBusy'
  BY <1>1, <1>2, <1>3 DEF IInv, WorkingIffBusy
<1>7. WaitInv' /\ FlowInv' /\ CommitInv' /\ SavedInv' /\ SetsInv'
  BY <1>3, <1>4 DEF IInv, WaitInv, FlowInv, CommitInv, SavedInv, SetsInv
<1>8. PendingInv'
  BY <1>1, <1>3, <1>4 DEF IInv, PendingInv
<1>9. ViewInv'
  BY <1>2 DEF ViewInv, Shows
<1>10. CancelInv'
  BY <1>2, <1>3 DEF CancelInv, Cancellable
<1> QED
  BY <1>5, <1>6, <1>7, <1>8, <1>9, <1>10 DEF IInv

\* Announce: between two phases, progress() or the end by a cancel.
LEMMA AnnounceKeeps ==
  ASSUME IInv, NEW a \in Announcements, Announce(a)
  PROVE  IInv'
<1>1. /\ worker.pc = a[1] /\ worker.pc \notin Between /\ a[2] \in Nat
      /\ a \in {<<"progress0", 0, "fetch">>, <<"progress1", 1, "fetched">>,
                <<"progress2", 2, "confirm">>, <<"progress3", 3, "evaluate">>,
                <<"progress5", 4, "verify">>}
  BY DEF Announce, Announcements, Between
<1>2. CASE ~cancelRequested /\ Proceed(FALSE, a[2], a[3])
  <2>1. /\ worker' \in Workers /\ worker'.pc = a[3]
        /\ worker'.action = worker.action
    BY <1>1, <1>2, InsideFacts DEF Proceed, GoTo, Workers, PCs
  <2>2. worker'.pc \notin Between
    BY <1>1, <2>1 DEF Between
  <2>3. flow' = flow
    BY <1>2 DEF Proceed, session
  <2>4. PhaseInv'
    BY <1>1, <2>1, <2>3 DEF IInv, PhaseInv
  <2>5. Cancellable(FALSE, a[2]) => worker'.pc = "fetch"
    BY <1>1, <2>1 DEF Cancellable
  <2> QED
    BY <1>1, <1>2, <2>1, <2>2, <2>4, <2>5, ProceedKeeps DEF Proceed
<1>3. CASE cancelRequested /\ At(a[1]) /\ Raise("cancelled") /\ flow' = flow
  <2>1. UNCHANGED <<controller, jobs, clock>>
    BY <1>3 DEF At
  <2>2. worker.pc = "progress1" /\ flow.state = "attribute_review"
    BY <1>1, <1>3, NoCancel DEF IInv, PhaseInv
  <2>3. worker'.pc = "commit" /\ worker'.out = "cancelled"
    BY <1>1, <1>3, InsideFacts DEF Raise, EndWith, Workers
  <2>4. CancelInv'
    BY <1>3, <2>1, <2>2, <2>3 DEF IInv, CancelInv, controller
  <2>5. SavedInv'
    BY <1>3 DEF IInv, SavedInv
  <2> QED
    BY <1>1, <1>3, <2>1, <2>2, <2>4, <2>5, InsideFacts, RaiseKeeps
<1> QED
  BY <1>2, <1>3 DEF Announce, CancelStops

\* AnnounceSave: the last progress() before the save.
LEMMA AnnounceSaveKeeps ==
  ASSUME IInv, AnnounceSave
  PROVE  IInv'
<1>1. worker.pc = "progress4" /\ worker.pc \notin Between
  BY DEF AnnounceSave, Between
<1>2. ~cancelRequested /\ "cancel" \notin view.can
  BY <1>1, NoCancel
<1>3. Proceed(FALSE, 4, "snapshot")
  BY <1>2 DEF AnnounceSave, CancelStops
<1>4. /\ worker' \in Workers /\ worker'.pc = "snapshot"
      /\ worker'.action = worker.action /\ worker'.pc \notin Between
  BY <1>1, <1>3, InsideFacts DEF Proceed, GoTo, Workers, PCs, Between
<1>5. PhaseInv'
  BY <1>1, <1>3, <1>4 DEF IInv, PhaseInv, Proceed, session
<1>6. ~Cancellable(FALSE, 4)
  BY DEF Cancellable
<1> QED
  BY <1>1, <1>2, <1>3, <1>4, <1>5, <1>6, ProceedKeeps DEF Proceed

\* FetchEvent: the product worker reports its second phase.
LEMMA FetchEventKeeps ==
  ASSUME IInv, FetchEvent
  PROVE  IInv'
<1>1. worker.pc = "fetching" /\ worker.pc \notin Between
  BY DEF FetchEvent, Between
<1>2. /\ worker' \in Workers /\ worker'.pc = "fetching"
      /\ worker'.action = worker.action
  BY <1>1, InsideFacts DEF FetchEvent, Workers
<1>3. PhaseInv'
  BY <1>1, <1>2 DEF IInv, PhaseInv, FetchEvent, session
<1> QED
  BY <1>1, <1>2, <1>3, ProceedKeeps DEF FetchEvent

-----------------------------------------------------------------------------
(* The start and the end of a command on the worker thread *)

\* A queue of one command is empty once it is taken.
LEMMA OneJob ==
  ASSUME NEW S, NEW q \in Seq(S), q # <<>>, Len(q) <= 1
  PROVE  Head(q) \in S /\ Tail(q) = <<>>
<1>1. Len(q) \in Nat \ {0}
  BY EmptySeq, Zenon
<1>2. Len(q) = 1
  BY <1>1
<1>3. Head(q) \in S /\ Tail(q) \in Seq(S) /\ Len(Tail(q)) = Len(q) - 1
  BY HeadTailProperties, Zenon
<1>4. Tail(q) # <<>> => Len(Tail(q)) \in Nat \ {0}
  BY <1>3, EmptySeq, Zenon
<1> QED BY <1>2, <1>3, <1>4

\* A command that is put into an empty queue is alone in it.
LEMMA QueueOne ==
  ASSUME NEW S, NEW a \in S
  PROVE  /\ Append(<<>>, a) \in Seq(S) /\ Len(Append(<<>>, a)) = 1
         /\ Append(<<>>, a) # <<>> /\ Head(Append(<<>>, a)) = a
OBVIOUS

\* WorkerTake: the accepted command is taken from the queue.
LEMMA WorkerTakeKeeps ==
  ASSUME IInv, WorkerTake
  PROVE  IInv'
<1>1. /\ worker.pc = "idle" /\ jobs # <<>> /\ Len(jobs) <= 1
      /\ UNCHANGED <<controller, session, clock>>
      /\ worker' = [Idle EXCEPT !.pc = "execute", !.action = Head(jobs)]
      /\ view.stage = "working" /\ jobs \in Seq(Actions) /\ jobs' = Tail(jobs)
  BY DEF WorkerTake, IInv, WorkingIffBusy, TypeOK
<1>2. Head(jobs) \in Actions /\ jobs' = <<>>
  BY <1>1, OneJob
<1>3. worker' = [pc |-> "execute", action |-> Head(jobs), out |-> "idle",
                 events |-> 0]
  BY <1>1 DEF Idle
<1>4. worker' \in Workers
  BY <1>2, <1>3 DEF Workers, PCs, Outs
<1>5. run' = run /\ gen' = gen /\ flow' = flow
  BY <1>1 DEF session
<1>6. TypeOK'
  BY <1>1, <1>2, <1>4, <1>5, TypeFacts, TypeFactsNext, EmptySeq
     DEF IInv, controller
<1>7. WorkingIffBusy'
  BY <1>1, <1>2, <1>3, EmptySeq DEF WorkingIffBusy, controller
<1>8. WaitInv' /\ FlowInv' /\ SavedInv' /\ SetsInv'
  BY <1>1, <1>3, <1>5 DEF IInv, WaitInv, FlowInv, SavedInv, SetsInv, Between
<1>9. PendingInv'
  BY <1>1, <1>2, <1>3, <1>5 DEF IInv, PendingInv, Fits, controller
<1>10. CommitInv' /\ PhaseInv'
  BY <1>3 DEF CommitInv, PhaseInv
<1>11. ViewInv'
  BY <1>1 DEF ViewInv, Shows, controller
<1>12. CancelInv'
  BY <1>1, <1>3 DEF IInv, CancelInv, controller
<1> QED
  BY <1>6, <1>7, <1>8, <1>9, <1>10, <1>11, <1>12 DEF IInv

\* A command that is settled by execute itself ends with an outcome.
LEMMA EndWithKeeps ==
  ASSUME IInv, NEW out \in {"query", "clarification", "error", "idle"},
         worker.pc = "execute", UNCHANGED <<controller, jobs, clock>>,
         EndWith(out), run' \in Runs, gen' \in Generators, flow' \in Flows,
         run'.preparations <= preparations,
         gen'.at \in {"query", "none", "ended"},
         gen'.at = "query" => run'.stage = "query" /\ flow'.state = "planned",
         gen'.at = "none" <=> ~run'.started,
         gen'.at = "none" => run'.stage = "idle" /\ run'.preparations = 0,
         out = "query" => gen'.at = "query",
         out = "clarification" =>
            gen'.at = "ended" /\ run'.stage = "clarification",
         out = "error" => gen'.at = "ended",
         out = "idle" => gen'.at = "none",
         gen'.sets <= MaxImageSets, SavedInv',
         flow'.attempt <= MaxImageSets, flow'.derived <= MaxImageSets,
         gen'.at = "query" => flow'.attempt = 0 /\ flow'.derived = 0,
         gen'.at = "ended" => flow'.state # "history_pending"
  PROVE  IInv'
<1>1. /\ worker' \in Workers /\ worker'.pc = "commit" /\ worker'.out = out
  BY TypeFacts DEF IInv, EndWith, Workers, PCs, Outs
<1>2. TypeOK' /\ WorkingIffBusy' /\ PendingInv' /\ ViewInv'
  BY <1>1, CommandKeeps
<1>3. OutStage("query") = "query"
  BY DEF OutStage
<1>4. WaitInv'
  BY <1>1, <1>3 DEF WaitInv, Waits, Between
<1>5. FlowInv' /\ PhaseInv'
  BY <1>1 DEF FlowInv, AtYield, PhaseInv
<1>6. CommitInv'
  BY <1>1 DEF CommitInv, Waits
<1>7. CancelInv'
  BY NoCancel, CancelKeeps
<1>8. SetsInv'
  BY DEF SetsInv, Waits, Generators
<1> QED
  BY <1>2, <1>4, <1>5, <1>6, <1>7, <1>8 DEF IInv

\* ExecuteReset: the run starts over.
LEMMA ExecuteResetKeeps ==
  ASSUME IInv, ExecuteReset
  PROVE  IInv'
<1>1. /\ worker.pc = "execute" /\ UNCHANGED <<controller, jobs, clock>>
      /\ run' = [stage |-> "idle", started |-> FALSE, preparations |-> 0]
      /\ gen' = [at |-> "none", sets |-> 0] /\ EndWith("idle") /\ flow' = flow
  BY DEF ExecuteReset, At
<1>2. run' \in Runs /\ gen' \in Generators
  BY <1>1, StageActionFacts DEF Runs, Generators, Positions, Stages
<1>3. flow \in Flows /\ preparations \in Nat
  BY TypeFacts DEF IInv
<1>4. /\ SavedInv' /\ flow'.attempt <= MaxImageSets
      /\ flow'.derived <= MaxImageSets /\ gen'.sets <= MaxImageSets
  BY <1>1, BrowserSearchAssumption DEF IInv, SavedInv, SetsInv
<1>5. run'.preparations <= preparations
  BY <1>1, <1>3
<1> QED
  BY <1>1, <1>2, <1>3, <1>4, <1>5, EndWithKeeps

\* ExecuteRefused: only a revision after a finished generator is refused.
LEMMA ExecuteRefusedKeeps ==
  ASSUME IInv, ExecuteRefused
  PROVE  IInv'
<1>1. /\ worker.pc = "execute" /\ UNCHANGED <<controller, jobs, clock>>
      /\ worker.action \in {"start", "revise"} /\ PrepareRefused(worker.action)
      /\ EndWith("error") /\ run' = run /\ gen' = gen /\ flow' = flow
  BY DEF ExecuteRefused, At, session
<1>2. /\ run \in Runs /\ gen \in Generators /\ flow \in Flows
      /\ preparations \in Nat
  BY TypeFacts DEF IInv
<1>3. /\ run.preparations < preparations /\ preparations <= MaxPreparations
      /\ Fits(worker.action, preparations)
  BY <1>1 DEF IInv, PendingInv, Fits
<1>4. run.preparations \in Nat
  BY <1>2 DEF Runs
<1>5. ~(run.preparations >= MaxPreparations)
  BY <1>2, <1>3, <1>4, BrowserSearchAssumption
<1>6. gen.at = "ended"
  BY <1>1, <1>3, <1>5 DEF PrepareRefused, Fits, IInv, WaitInv
<1>7. run.started /\ run.preparations <= preparations
  BY <1>2, <1>3, <1>4, <1>6 DEF IInv, WaitInv
<1>8. /\ SavedInv' /\ flow'.attempt <= MaxImageSets
      /\ flow'.derived <= MaxImageSets /\ gen'.sets <= MaxImageSets
  BY <1>1 DEF IInv, SavedInv, SetsInv
<1>9. flow.state # "history_pending"
  BY <1>1, <1>6 DEF IInv, FlowInv, AtYield, Between
<1> QED
  BY <1>1, <1>2, <1>6, <1>7, <1>8, <1>9, EndWithKeeps

\* ExecutePrepare: a new generator, or none if the source needs clarification.
LEMMA ExecutePrepareKeeps ==
  ASSUME IInv, ExecutePrepare
  PROVE  IInv'
<1>1. /\ worker.pc = "execute" /\ UNCHANGED <<controller, jobs, clock>>
      /\ worker.action \in {"start", "revise"}
  BY DEF ExecutePrepare, At
<1>2. PICK out \in {"query", "clarification", "error"},
           im \in {"allowed", "text_only"} :
        /\ run' = [stage |-> OutStage(out), started |-> TRUE,
                   preparations |-> run.preparations + 1]
        /\ gen' = [at |-> IF out = "query" THEN "query" ELSE "ended",
                   sets |-> 0]
        /\ flow' = NewFlow(im) /\ EndWith(out)
  BY DEF ExecutePrepare
<1>3. run \in Runs /\ preparations \in Nat /\ run.preparations \in Nat
  BY TypeFacts DEF IInv, Runs
<1>4. run.preparations < preparations
  BY <1>1 DEF IInv, PendingInv, Fits
<1>5. out \in Outs
  BY DEF Outs
<1>6. OutStage(out) \in Stages /\ (out # "error" => OutStage(out) = out)
  BY <1>5, OutStageFacts
<1>7. run' \in Runs /\ run'.started /\ run'.preparations <= preparations
      /\ (out # "error" => run'.stage = out)
  BY <1>2, <1>3, <1>4, <1>6 DEF Runs
<1>8. gen' \in Generators /\ gen'.sets = 0
      /\ gen'.at = (IF out = "query" THEN "query" ELSE "ended")
  BY <1>2 DEF Generators, Positions, Outs
<1>9. /\ flow' \in Flows /\ flow'.state = "planned" /\ flow'.attempt = 0
      /\ flow'.derived = 0 /\ flow'.saved = 0
  BY <1>2 DEF NewFlow, Flows, FlowStates, Never
<1>10. /\ SavedInv' /\ flow'.attempt <= MaxImageSets
       /\ flow'.derived <= MaxImageSets /\ gen'.sets <= MaxImageSets
  BY <1>8, <1>9, BrowserSearchAssumption DEF SavedInv
<1> QED
  BY <1>1, <1>2, <1>7, <1>8, <1>9, <1>10, EndWithKeeps

-----------------------------------------------------------------------------
(* The controller *)

\* A view that expires still shows what the search is at.
LEMMA ShowsExpired ==
  ASSUME NEW v \in Views, NEW d \in Deadlines, NEW now \in Nat, Shows(v, d)
  PROVE  Shows(Expired(v, d, now), d)
<1>1. PICK e : e = Expired(v, d, now)
  OBVIOUS
<1>2. /\ e \in Views
      /\ \/ e = v
         \/ /\ e.stage = "expired" /\ d # Never
            /\ v.stage \in {"query", "reference", "comparison", "final",
                            "attributes"}
  BY <1>1, ExpiredFacts, StageActionFacts
<1>3. CASE e = v
  BY <1>1, <1>3
<1>4. CASE /\ e.stage = "expired" /\ d # Never
           /\ v.stage \in {"query", "reference", "comparison", "final",
                           "attributes"}
  <2>1. gen.at \in {"comparison", "final"}
    BY <1>4 DEF Shows
  <2> QED BY <1>1, <1>4, <2>1 DEF Shows
<1> QED BY <1>2, <1>3, <1>4

\* The view of an outcome: its stage, no cancel, and the flags it names.
LEMMA NextViewFacts ==
  ASSUME IInv, NEW out \in Outs
  PROVE  LET n == NextView(out)
         IN  /\ n \in Views /\ n.stage = OutStage(out) /\ "cancel" \notin n.can
             /\ out = "final_skip" =>
                  n.can \cap {"skip", "regenerate", "regenerate_comparisons"} = {}
             /\ out = "unsaved" => "retry_save" \in n.can
             /\ out = "complete" => "retry_save" \notin n.can
<1>1. view \in Views /\ OutStage(out) \in Stages
  BY TypeFacts, OutStageFacts DEF IInv
<1>2. PICK can : can = ((view.can \ Named(out)) \cup Set(out)) \ {"cancel"}
  OBVIOUS
<1>3. Set(out) \in SUBSET Flags
  BY DEF Set, Flags
<1>4. can \in SUBSET Flags
  BY <1>1, <1>2, <1>3 DEF Views
<1>5. PICK n : n = NextView(out)
  OBVIOUS
<1>6. n = [view EXCEPT !.stage = OutStage(out), !.can = can]
  BY <1>1, <1>2, <1>5 DEF NextView, Views
<1>7. n = [stage |-> OutStage(out), revision |-> view.revision, can |-> can]
  BY <1>1, <1>6 DEF Views
<1>8. /\ out = "final_skip" =>
           can \cap {"skip", "regenerate", "regenerate_comparisons"} = {}
      /\ out = "unsaved" => "retry_save" \in can
      /\ out = "complete" => "retry_save" \notin can
  BY <1>2 DEF Named, Set
<1> QED
  BY <1>1, <1>2, <1>4, <1>5, <1>7, <1>8 DEF Views

\* Commit: the view of the outcome is installed.
LEMMA CommitKeeps ==
  ASSUME IInv, Commit
  PROVE  IInv'
<1>1. /\ worker.pc = "commit" /\ worker' = Idle
      /\ UNCHANGED <<commands, preparations, cancelRequested, jobs, clock>>
      /\ run' = run /\ gen' = gen /\ flow' = flow
      /\ deadline' = (IF worker.out \in {"comparison", "final"}
                      THEN flow.expires ELSE Never)
      /\ view' = Expired(NextView(worker.out), deadline', clock)
  BY DEF Commit, session
<1>2. jobs = <<>> /\ view.stage = "working"
  BY <1>1, BusyFacts
<1>3. /\ worker \in Workers /\ worker.out \in Outs /\ flow \in Flows
      /\ clock \in Nat /\ run \in Runs
  BY TypeFacts DEF IInv, Workers
<1>4. deadline' \in Deadlines
  BY <1>1, <1>3 DEF Deadlines, Flows
<1>5. PICK n : n = NextView(worker.out)
  OBVIOUS
<1>6. /\ n \in Views /\ n.stage = OutStage(worker.out) /\ "cancel" \notin n.can
      /\ worker.out = "final_skip" =>
           n.can \cap {"skip", "regenerate", "regenerate_comparisons"} = {}
      /\ worker.out = "unsaved" => "retry_save" \in n.can
      /\ worker.out = "complete" => "retry_save" \notin n.can
  BY <1>3, <1>5, NextViewFacts
<1>7. n.stage \in Stages \ {"working", "expired"}
  BY <1>3, <1>6, OutStageFacts
<1>8. Shows(n, deadline')
  BY <1>1, <1>3, <1>6, OutStageFacts DEF IInv, CommitInv, Shows, Waits, Outs
<1>9. Shows(view', deadline')
  BY <1>1, <1>3, <1>4, <1>5, <1>6, <1>8, ShowsExpired
<1>10. /\ view' \in Views /\ view'.can = n.can
       /\ \/ view' = n
          \/ view'.stage = "expired" /\ deadline' # Never
  BY <1>1, <1>3, <1>4, <1>5, <1>6, ExpiredFacts
<1>11. worker' \in Workers /\ worker'.pc = "idle"
  BY <1>1 DEF Idle, Workers, PCs, Actions, Outs
<1>12. TypeOK'
  BY <1>1, <1>4, <1>10, <1>11, TypeFacts, TypeFactsNext DEF IInv
<1>13. WorkingIffBusy'
  BY <1>1, <1>2, <1>7, <1>10, <1>11 DEF IInv, WorkingIffBusy
<1>14. WaitInv' /\ SavedInv' /\ SetsInv'
  BY <1>1, <1>11 DEF IInv, WaitInv, SavedInv, SetsInv, Between
<1>15. FlowInv'
  BY <1>1, <1>11 DEF IInv, FlowInv, Between
<1>16. PendingInv'
  BY <1>1, <1>2, <1>11 DEF IInv, PendingInv
<1>17. ViewInv'
  BY <1>1, <1>9 DEF ViewInv, Shows
<1>18. CommitInv' /\ PhaseInv'
  BY <1>11 DEF CommitInv, PhaseInv
<1>19. CancelInv'
  <2>1. "cancel" \notin view'.can
    BY <1>6, <1>10
  <2>2. CASE cancelRequested
    <3>1. /\ worker.out \in {"error", "cancelled"}
          /\ flow.state \in {"failed", "attribute_review"}
      BY <1>1, <2>2 DEF IInv, CancelInv
    <3>2. view'.stage \in {"failed", "cancelled"}
      BY <1>1, <1>3, <1>6, <1>10, <3>1, OutStageFacts
    <3> QED
      BY <1>1, <1>11, <2>1, <3>1, <3>2 DEF CancelInv
  <2>3. CASE ~cancelRequested
    BY <1>1, <2>1, <2>3 DEF CancelInv
  <2> QED BY <2>2, <2>3
<1> QED
  BY <1>12, <1>13, <1>14, <1>15, <1>16, <1>17, <1>18, <1>19 DEF IInv

\* Snapshot: a read of the view may expire it.
LEMMA SnapshotKeeps ==
  ASSUME IInv, Snapshot
  PROVE  IInv'
<1>1. /\ view' = Expired(view, deadline, clock) /\ view' # view
      /\ UNCHANGED <<commands, deadline, preparations, cancelRequested, jobs,
                     worker, clock>>
      /\ run' = run /\ gen' = gen /\ flow' = flow
  BY DEF Snapshot, session
<1>2. view \in Views /\ deadline \in Deadlines /\ clock \in Nat
  BY TypeFacts DEF IInv
<1>3. /\ view' \in Views /\ view'.can = view.can /\ view'.stage = "expired"
      /\ view.stage \in {"query", "reference", "comparison", "final",
                         "attributes"}
  BY <1>1, <1>2, ExpiredFacts, StageActionFacts
<1>4. TypeOK'
  BY <1>1, <1>3, TypeFacts, TypeFactsNext DEF IInv
<1>5. WorkingIffBusy'
  BY <1>1, <1>3 DEF IInv, WorkingIffBusy
<1>6. /\ WaitInv' /\ FlowInv' /\ PendingInv' /\ CommitInv' /\ PhaseInv'
      /\ SavedInv' /\ SetsInv'
  BY <1>1 DEF IInv, WaitInv, FlowInv, PendingInv, Fits, CommitInv, PhaseInv,
              SavedInv, SetsInv
<1>7. ViewInv'
  <2>1. Shows(view', deadline)
    BY <1>1, <1>2, ShowsExpired DEF IInv, ViewInv
  <2> QED BY <1>1, <2>1 DEF ViewInv, Shows
<1>8. CancelInv'
  BY <1>1, <1>3 DEF IInv, CancelInv, WorkingIffBusy
<1> QED
  BY <1>4, <1>5, <1>6, <1>7, <1>8 DEF IInv

\* Cancel: an offered cancel comes into force.
LEMMA CancelStepKeeps ==
  ASSUME IInv, NEW r \in Nat, Cancel(r)
  PROVE  IInv'
<1>1. /\ "cancel" \in view.can /\ view.stage = "working"
      /\ commands' = commands \cup {<<"cancel", r>>} /\ cancelRequested' = TRUE
      /\ view' = [view EXCEPT !.can = @ \ {"cancel"}]
      /\ UNCHANGED <<deadline, preparations, jobs, worker, clock>>
      /\ run' = run /\ gen' = gen /\ flow' = flow
  BY DEF Cancel, session
<1>2. /\ view' \in Views /\ view'.stage = "working"
      /\ "cancel" \notin view'.can
  BY <1>1, TypeFacts DEF IInv, Views
<1>3. TypeOK'
  BY <1>1, <1>2, TypeFacts, TypeFactsNext DEF IInv
<1>4. WorkingIffBusy'
  BY <1>1, <1>2 DEF IInv, WorkingIffBusy
<1>5. /\ WaitInv' /\ FlowInv' /\ PendingInv' /\ CommitInv' /\ PhaseInv'
      /\ SavedInv' /\ SetsInv'
  BY <1>1 DEF IInv, WaitInv, FlowInv, PendingInv, Fits, CommitInv, PhaseInv,
              SavedInv, SetsInv
<1>6. ViewInv'
  BY <1>2 DEF ViewInv, Shows
<1>7. CancelInv'
  BY <1>1, <1>2 DEF IInv, CancelInv
<1> QED
  BY <1>3, <1>4, <1>5, <1>6, <1>7 DEF IInv

\* What a view offers is what the generator can take (submit, execute).
LEMMA OfferedFits ==
  ASSUME IInv, NEW v \in Views, Shows(v, deadline), NEW a \in Actions,
         jobs = <<>>, worker.pc = "idle",
         Offered(v, a), WithinLimits(a), NEW prepared,
         prepared = CASE a = "reset" -> 0
                      [] a \in {"start", "revise"} -> preparations + 1
                      [] OTHER -> preparations
  PROVE  /\ Fits(a, prepared) /\ prepared \in Nat
         /\ prepared <= MaxPreparations
<1>1. /\ run \in Runs /\ run.preparations \in Nat /\ preparations \in Nat
      /\ MaxPreparations \in Nat
  BY TypeFacts, BrowserSearchAssumption DEF IInv, Runs
<1>2. /\ run.preparations <= preparations /\ preparations <= MaxPreparations
  BY DEF IInv, PendingInv
<1>3. WaitInv
  BY DEF IInv
<1>4. prepared \in Nat /\ prepared <= MaxPreparations
  BY <1>1, <1>2 DEF WithinLimits
<1>5. CASE a = "start"
  <2>1. v.stage = "idle"
    BY <1>5, StageActionFacts DEF Offered
  <2>2. gen.at = "none"
    BY <2>1 DEF Shows
  <2> QED
    BY <1>1, <1>2, <1>3, <1>4, <1>5, <2>2 DEF Fits, WaitInv
<1>6. CASE a = "revise"
  <2>1. v.stage \in Revisable
    BY <1>6, StageActionFacts DEF Offered, CanRevise
  <2>2. \/ gen.at = "ended"
        \/ gen.at \in {"query", "reference", "comparison", "final",
                       "final_skip", "image_failed"}
    BY <2>1 DEF Shows, Revisable
  <2>3. CASE gen.at \in {"query", "reference", "comparison", "final",
                         "final_skip", "image_failed"}
    <3>1. gen.at \in Outs /\ run.stage = OutStage(gen.at)
      BY <1>3, <2>3 DEF WaitInv, Waits, Outs
    <3>2. run.stage \in Revisable
      BY <2>3, <3>1, OutStageFacts DEF Revisable
    <3> QED
      BY <1>1, <1>2, <1>4, <1>6, <2>3, <3>2 DEF Fits
  <2>4. CASE gen.at = "ended"
    BY <1>1, <1>2, <1>4, <1>6, <2>4 DEF Fits
  <2> QED BY <2>2, <2>3, <2>4
<1>7. CASE a = "reset"
  BY <1>4, <1>7 DEF Fits
<1>8. CASE a \notin {"start", "revise", "reset"}
  <2>1. prepared = preparations
    BY <1>8
  <2>2. \/ v.stage = "query" /\ a \in {"reference", "without_images"}
        \/ v.stage = "reference" /\ a \in {"comparison", "without_images",
                                           "regenerate"}
        \/ v.stage = "comparison" /\ a \in {"final", "without_images",
                             "regenerate", "regenerate_comparisons"}
        \/ v.stage = "final" /\ a = "search"
        \/ v.stage = "final" /\ a = "without_images" /\ "skip" \in v.can
        \/ v.stage = "final" /\ a = "regenerate" /\ "regenerate" \in v.can
        \/ /\ v.stage = "final" /\ a = "regenerate_comparisons"
           /\ "regenerate_comparisons" \in v.can
        \/ v.stage = "attributes" /\ a = "rank"
        \/ v.stage = "expired" /\ a \in {"without_images", "regenerate"}
        \/ v.stage = "failed" /\ a \in {"without_images", "regenerate",
                                        "regenerate_comparisons"}
        \/ v.stage = "complete" /\ a = "retry_save" /\ "retry_save" \in v.can
    BY <1>8, StageActionFacts DEF Offered
  <2> QED
    BY <1>2, <1>4, <1>8, <2>1, <2>2 DEF Fits, Shows
<1> QED BY <1>4, <1>5, <1>6, <1>7, <1>8

\* Submit: an accepted command is queued.
LEMMA SubmitKeeps ==
  ASSUME IInv, NEW a \in Actions, NEW r \in Nat, Submit(a, r)
  PROVE  IInv' /\ view'.revision > view.revision /\ view.stage # "working"
<1>1. PICK v : v = Expired(view, deadline, clock)
  OBVIOUS
<1>2. /\ Accepts(v, a, r) /\ view' = Working(v, a)
      /\ commands' = (IF a = "reset" THEN {} ELSE commands) \cup {<<"do", r>>}
      /\ deadline' = IF a = "reset" THEN Never ELSE deadline
      /\ preparations' = CASE a = "reset" -> 0
                           [] a \in {"start", "revise"} -> preparations + 1
                           [] OTHER -> preparations
      /\ cancelRequested' = FALSE /\ jobs' = Append(jobs, a)
      /\ worker' = worker /\ clock' = clock
      /\ run' = run /\ gen' = gen /\ flow' = flow
  BY <1>1 DEF Submit, session
<1>3. /\ view \in Views /\ deadline \in Deadlines /\ clock \in Nat
      /\ preparations \in Nat
  BY TypeFacts DEF IInv
<1>4. /\ v \in Views /\ v.can = view.can
      /\ v = view \/ (v.stage = "expired" /\ v.revision > view.revision)
      /\ v # view => view.stage \in DOMAIN StageAction
  BY <1>1, <1>3, ExpiredFacts
<1>5. Offered(v, a) /\ WithinLimits(a)
  BY <1>2 DEF Accepts
<1>6. v.stage # "working"
  BY <1>5, StageActionFacts DEF Offered, CanRevise, Revisable
<1>7. view.stage # "working"
  BY <1>4, <1>6, StageActionFacts
<1>8. jobs = <<>> /\ worker.pc = "idle"
  BY <1>7 DEF IInv, WorkingIffBusy
<1>9. Shows(v, deadline)
  BY <1>1, <1>3, ShowsExpired DEF IInv, ViewInv
<1>10. PICK prepared : prepared = CASE a = "reset" -> 0
                         [] a \in {"start", "revise"} -> preparations + 1
                         [] OTHER -> preparations
  OBVIOUS
<1>11. /\ Fits(a, prepared) /\ prepared \in Nat
       /\ prepared <= MaxPreparations /\ preparations' = prepared
  BY <1>2, <1>4, <1>5, <1>8, <1>9, <1>10, OfferedFits
<1>12. /\ view' = [stage |-> "working", revision |-> v.revision + 1,
                   can |-> IF a \in {"start", "revise"} THEN {}
                           ELSE v.can \ {"cancel"}]
  BY <1>2 DEF Working
<1>13. /\ view' \in Views /\ view'.stage = "working"
       /\ view'.revision > view.revision /\ "cancel" \notin view'.can
  BY <1>3, <1>4, <1>12 DEF Views, Stages
<1>14. /\ jobs' \in Seq(Actions) /\ Len(jobs') = 1 /\ jobs' # <<>>
       /\ Head(jobs') = a
  BY <1>2, <1>8, QueueOne
<1>15. commands' \subseteq {"do", "cancel"} \X Nat
  BY <1>2, TypeFacts DEF IInv
<1>16. deadline' \in Deadlines
  BY <1>2, <1>3 DEF Deadlines
<1>17. TypeOK'
  BY <1>2, <1>11, <1>13, <1>14, <1>15, <1>16, TypeFacts, TypeFactsNext DEF IInv
<1>18. WorkingIffBusy'
  BY <1>2, <1>8, <1>13, <1>14 DEF WorkingIffBusy
<1>19. /\ WaitInv' /\ FlowInv' /\ CommitInv' /\ PhaseInv' /\ SavedInv'
       /\ SetsInv'
  BY <1>2 DEF IInv, WaitInv, FlowInv, CommitInv, PhaseInv, SavedInv, SetsInv
<1>20. PendingInv'
  BY <1>2, <1>8, <1>11, <1>14 DEF PendingInv, Fits
<1>21. ViewInv'
  BY <1>13 DEF ViewInv, Shows
<1>22. CancelInv'
  BY <1>2, <1>13 DEF CancelInv
<1> QED
  BY <1>7, <1>13, <1>17, <1>18, <1>19, <1>20, <1>21, <1>22 DEF IInv

\* Tick and stuttering: nothing but the clock moves.
LEMMA RestKeeps ==
  ASSUME IInv, UNCHANGED <<controller, jobs, worker, session>>,
         clock' = clock \/ clock' = clock + 1
  PROVE  IInv'
<1>1. run' = run /\ gen' = gen /\ flow' = flow
  BY DEF session
<1>2. clock' \in Nat
  BY TypeFacts DEF IInv
<1>3. TypeOK'
  BY <1>1, <1>2, TypeFacts, TypeFactsNext DEF IInv, controller
<1>4. /\ WorkingIffBusy' /\ WaitInv' /\ FlowInv' /\ PendingInv' /\ CommitInv'
      /\ PhaseInv' /\ SavedInv' /\ SetsInv' /\ CancelInv'
  BY <1>1 DEF IInv, WorkingIffBusy, WaitInv, FlowInv, PendingInv, Fits,
              CommitInv, PhaseInv, SavedInv, SetsInv, CancelInv, controller
<1>5. ViewInv'
  BY <1>1 DEF IInv, ViewInv, Shows, controller
<1> QED BY <1>3, <1>4, <1>5 DEF IInv

-----------------------------------------------------------------------------
(* The invariant holds *)

\* At the start nothing is shown, queued or searched.
LEMMA InitIInv ==
  ASSUME Init
  PROVE  IInv
<1>1. TypeOK
  <2>1. view \in Views
    BY StageActionFacts DEF Init, Views, Stages
  <2>2. worker \in Workers
    BY DEF Init, Idle, Workers, PCs, Actions, Outs
  <2>3. run \in Runs /\ gen \in Generators
    BY <2>1 DEF Init, Runs, Generators, Positions, Views
  <2>4. flow \in Flows
    BY DEF Init, NewFlow, Flows, FlowStates, Never
  <2>5. jobs \in Seq(Actions) /\ deadline \in Deadlines
    BY EmptySeq DEF Init, Deadlines
  <2> QED
    BY <2>1, <2>2, <2>3, <2>4, <2>5, TypeFacts DEF Init
<1>2. WorkingIffBusy
  BY EmptySeq DEF Init, WorkingIffBusy, Idle
<1>3. WaitInv /\ FlowInv /\ ViewInv /\ CommitInv /\ PhaseInv /\ CancelInv
  BY DEF Init, Idle, WaitInv, FlowInv, AtYield, ViewInv, Shows, CommitInv,
         PhaseInv, CancelInv, Waits, Between
<1>4. PendingInv
  BY BrowserSearchAssumption DEF Init, Idle, PendingInv
<1>5. SavedInv /\ SetsInv
  BY BrowserSearchAssumption DEF Init, NewFlow, SavedInv, SetsInv, Waits
<1> QED BY <1>1, <1>2, <1>3, <1>4, <1>5 DEF IInv

\* Every step of the worker, of a user and of the clock keeps the invariant.
LEMMA StepIInv ==
  ASSUME IInv, [Next]_vars
  PROVE  IInv'
<1>1. CASE WorkerStep
  BY <1>1, WorkerTakeKeeps, ExecuteResetKeeps, ExecuteRefusedKeeps,
     ExecutePrepareKeeps, ResumeRaisesKeeps, ResumeGenerateKeeps,
     ResumeDeriveKeeps, ResumeApproveReferenceKeeps, ResumeShowFinalKeeps,
     ResumeSkipKeeps, ResumeSearchKeeps, ResumeRankKeeps, ResumeSaveKeeps,
     AnnounceKeeps, AnnounceSaveKeeps, FetchKeeps, FetchEventKeeps,
     FetchedKeeps, ReviewKeeps, ConfirmKeeps, EvaluateKeeps,
     TakeSnapshotKeeps, SaveKeeps, VerifyKeeps, CommitKeeps DEF WorkerStep
<1>2. CASE UserStep
  <2>1. view.revision \in Nat
    BY TypeFacts DEF IInv, Views
  <2>2. \A r \in 0..view.revision + 1 : r \in Nat
    BY <2>1
  <2> QED
    BY <1>2, <2>2, SnapshotKeeps, CancelStepKeeps, SubmitKeeps DEF UserStep
<1>3. CASE Tick \/ UNCHANGED vars
  BY <1>3, RestKeeps DEF Tick, vars
<1> QED BY <1>1, <1>2, <1>3 DEF Next

\* The inductive invariant: what the four positions of a search, that of the
\* view, the worker, the generator and the flow, know of each other.
THEOREM Invariance == Spec => []IInv
BY InitIInv, StepIInv, PTL DEF Spec

\* Whatever the controller shows, the run, the generator and the flow are at
\* that stage, and it shows "working" exactly while one command is under way
\* (BrowserSearch.snapshot against BrowserCandidateRun.execute).
THEOREM ViewTheorem == Spec => []ViewMatchesSearch
<1>1. ASSUME IInv
      PROVE  ViewMatchesSearch
  <2>1. TypeOK /\ WorkingIffBusy
    BY <1>1 DEF IInv
  <2>2. SUFFICES ASSUME view.stage # "working"
                 PROVE  StageMatchesSearch
    BY <2>1 DEF ViewMatchesSearch, StageMatchesSearch
  <2>3. worker.pc \in Between
    BY <2>1, <2>2 DEF WorkingIffBusy, Between
  <2>4. AtYield(gen.at, flow.state)
    BY <1>1, <2>3 DEF IInv, FlowInv
  <2>5. /\ gen.at = "query" => run.stage = "query"
        /\ gen.at = "reference" => run.stage = "reference"
        /\ gen.at = "comparison" => run.stage = "comparison"
        /\ gen.at \in {"final", "final_skip"} => run.stage = "final"
        /\ gen.at = "attributes" => run.stage = "attributes"
    BY <1>1, OutStageFacts DEF IInv, WaitInv, Waits, Outs
  <2>6. Shows(view, deadline)
    BY <1>1 DEF IInv, ViewInv
  <2>7. flow.state = "completed" => flow.saved = 1
    BY <1>1 DEF IInv, SavedInv
  <2> QED
    BY <2>4, <2>5, <2>6, <2>7 DEF StageMatchesSearch, Shows, AtYield
<1> QED BY <1>1, Invariance, PTL

\* A cancel that was accepted wins over the phases of the worker: nothing is
\* ranked and nothing is saved (progress, _run).
THEOREM CancelTheorem == Spec => []CancelWins
<1>1. ASSUME IInv
      PROVE  CancelWins
  <2>1. SUFFICES ASSUME cancelRequested
                 PROVE  /\ view.stage \in {"working", "cancelled", "failed"}
                        /\ flow.state \in {"images_approved", "images_skipped",
                                           "fetching", "attribute_review",
                                           "failed"}
    BY <1>1 DEF CancelWins, IInv, SavedInv
  <2>2. worker.pc # "idle" => view.stage = "working"
    BY <1>1, BusyFacts
  <2>3. worker.pc \in {"fetch", "fetching", "progress1"} =>
          flow.state \in {"images_approved", "images_skipped", "fetching",
                          "attribute_review"}
    BY <1>1 DEF IInv, PhaseInv
  <2> QED
    BY <1>1, <2>1, <2>2, <2>3 DEF IInv, CancelInv
<1> QED BY <1>1, Invariance, PTL

\* The paid image calls of one preparation stay within the budget of its image
\* sets (MAX_BROWSER_IMAGE_CALLS).
THEOREM BudgetTheorem == Spec => []ImageBudget
<1>1. ASSUME IInv
      PROVE  ImageBudget
  <2>1. /\ flow.attempt \in Nat /\ flow.derived \in Nat
        /\ MaxImageSets \in Nat
    BY <1>1, TypeFacts, BrowserSearchAssumption DEF IInv, Flows
  <2>2. flow.attempt <= MaxImageSets /\ flow.derived <= MaxImageSets
    BY <1>1 DEF IInv, SetsInv
  <2> QED BY <2>1, <2>2 DEF ImageBudget
<1> QED BY <1>1, Invariance, PTL

\* A result whose save failed stays on the screen with the retry offered, no
\* command but the retry and the reset is taken for it, and what has a row in
\* the history is never failed or begun again (retry_history, the inner except
\* clause of candidate_browser_steps).
THEOREM ResultTheorem == Spec => []ResultIsKept
<1>1. ASSUME IInv
      PROVE  ResultIsKept
  <2>1. flow.saved # 0 => flow.state \in {"history_pending", "completed"}
    BY <1>1 DEF IInv, SavedInv
  <2>2. SUFFICES ASSUME flow.state = "history_pending", run.started
                 PROVE  /\ view.stage # "working" =>
                             view.stage = "complete" /\ "retry_save" \in view.can
                        /\ jobs # <<>> => Head(jobs) \in {"retry_save", "reset"}
                        /\ worker.pc = "execute" =>
                             worker.action \in {"retry_save", "reset"}
    BY <2>1 DEF ResultIsKept
  <2>3. worker.pc \in Between => gen.at = "unsaved"
    BY <1>1, <2>2 DEF IInv, WaitInv, FlowInv, AtYield
  <2>4. view.stage # "working" =>
          view.stage = "complete" /\ "retry_save" \in view.can
    <3>1. SUFFICES ASSUME view.stage # "working"
                   PROVE  view.stage = "complete" /\ "retry_save" \in view.can
      OBVIOUS
    <3>2. gen.at = "unsaved"
      BY <1>1, <2>3, <3>1 DEF IInv, WorkingIffBusy, Between
    <3>3. view.stage \in Stages
      BY <1>1, TypeFacts DEF IInv, Views
    <3>4. Shows(view, deadline)
      BY <1>1 DEF IInv, ViewInv
    <3> QED
      BY <3>1, <3>2, <3>3, <3>4, StageActionFacts DEF Shows, Stages
  <2>5. ASSUME NEW a \in Actions, Fits(a, preparations), gen.at = "unsaved"
        PROVE  a \in {"retry_save", "reset"}
    <3>1. run.stage = "complete"
      BY <1>1, <2>5, OutStageFacts DEF IInv, WaitInv, Waits, Outs
    <3> QED
      BY <2>5, <3>1 DEF Fits, Revisable
  <2>6. jobs # <<>> => Head(jobs) \in {"retry_save", "reset"}
    <3>1. SUFFICES ASSUME jobs # <<>>
                   PROVE  Head(jobs) \in {"retry_save", "reset"}
      OBVIOUS
    <3>2. Head(jobs) \in Actions
      BY <1>1, <3>1, TypeFacts, HeadTailProperties DEF IInv
    <3>3. Fits(Head(jobs), preparations) /\ gen.at = "unsaved"
      BY <1>1, <2>3, <3>1 DEF IInv, PendingInv, WorkingIffBusy, Between
    <3> QED BY <2>5, <3>2, <3>3
  <2>7. worker.pc = "execute" => worker.action \in {"retry_save", "reset"}
    BY <1>1, <2>3, <2>5, TypeFacts DEF IInv, PendingInv, Between, Workers
  <2> QED BY <2>4, <2>6, <2>7
<1> QED BY <1>1, Invariance, PTL

\* A view the user can act on changes only together with its revision, so a
\* command for an older view is refused (submit, snapshot).
THEOREM VersionedTheorem == Spec => ViewsAreVersioned
<1>1. ASSUME IInv, [Next]_vars, view.stage # "working", view' # view
      PROVE  view'.revision > view.revision
  <2>1. worker.pc = "idle"
    BY <1>1 DEF IInv, WorkingIffBusy
  <2>2. view \in Views /\ deadline \in Deadlines /\ clock \in Nat
    BY <1>1, TypeFacts DEF IInv
  <2>3. CASE WorkerStep
    BY <1>1, <2>1, <2>3
       DEF WorkerStep, WorkerTake, ExecuteReset, ExecuteRefused,
           ExecutePrepare, ResumeRaises, ResumeGenerate, ResumeDerive,
           ResumeApproveReference, ResumeShowFinal, ResumeSkip, ResumeSearch,
           ResumeRank, ResumeSave, Announce, Announcements, AnnounceSave,
           Fetch, FetchEvent, Fetched, Review, ConfirmAttributes, Evaluate,
           TakeSnapshot, Save, Verify, Commit, Resumes, At, controller
  <2>4. CASE Snapshot
    BY <1>1, <2>2, <2>4, ExpiredFacts DEF Snapshot
  <2>5. CASE \E r \in 0..view.revision + 1 :
               Cancel(r) \/ \E a \in Actions : Submit(a, r)
    <3>1. PICK r \in 0..view.revision + 1 :
            Cancel(r) \/ \E a \in Actions : Submit(a, r)
      BY <2>5
    <3>2. r \in Nat /\ ~Cancel(r)
      BY <1>1, <2>2, <3>1 DEF Cancel, Views
    <3> QED
      BY <1>1, <3>1, <3>2, SubmitKeeps
  <2>6. CASE Tick \/ UNCHANGED vars
    BY <1>1, <2>6 DEF Tick, vars, controller
  <2> QED
    BY <1>1, <2>3, <2>4, <2>5, <2>6 DEF Next, UserStep
<1>2. ASSUME IInv, [Next]_vars
      PROVE  [view.stage # "working" /\ view' # view =>
                view'.revision > view.revision]_vars
  BY <1>1, <1>2
<1> QED
  BY <1>2, Invariance, PTL DEF Spec, ViewsAreVersioned

\* A step of the flow is made for a command that asks for it.
Confirmed ==
    /\ flow'.attempt > flow.attempt =>
         worker.action \in {"reference", "regenerate"}
    /\ flow'.derived > flow.derived =>
         worker.action \in {"comparison", "regenerate_comparisons"}
    /\ flow'.state = "fetching" /\ flow.state # "fetching" =>
         worker.action = "search"
    /\ flow'.saved > flow.saved =>
         worker.action \in {"search", "rank", "retry_save"}

\* A step that pays for nothing, begins no retrieval and saves nothing needs
\* no command.
LEMMA FreeStep ==
  ASSUME flow \in Flows, flow'.attempt = flow.attempt,
         flow'.derived = flow.derived, flow'.saved = flow.saved,
         flow'.state = flow.state \/ flow'.state # "fetching"
  PROVE  Confirmed
BY DEF Confirmed, Flows

\* The steps of the flow are made for the commands that ask for them.
LEMMA StepConfirmed ==
  ASSUME IInv, Next
  PROVE  Confirmed
<1>1. flow \in Flows /\ clock \in Nat /\ worker \in Workers
  BY TypeFacts DEF IInv
<1>2. /\ flow.attempt \in Nat /\ flow.derived \in Nat /\ flow.saved \in Nat
  BY <1>1 DEF Flows
<1>3. CASE flow' = flow
  BY <1>1, <1>3, FreeStep
<1>4. CASE ExecutePrepare
  <2>1. PICK im \in {"allowed", "text_only"} : flow' = NewFlow(im)
    BY <1>4 DEF ExecutePrepare
  <2> QED
    BY <1>2, <2>1 DEF NewFlow, Confirmed
<1>5. CASE ResumeGenerate
  <2>1. worker.action \in {"reference", "regenerate"}
    BY <1>5, ResumesFacts, ResumptionFacts DEF ResumeGenerate
  <2>2. CASE flow' # flow
    <3>1. PICK states : \E r \in GenerateReference(flow, states) : flow' = r.flow
      BY <1>5, <2>2 DEF ResumeGenerate, NextSet, ImageResult
    <3>2. /\ flow'.derived = flow.derived /\ flow'.saved = flow.saved
          /\ flow'.state = flow.state \/ flow'.state # "fetching"
      BY <1>1, <3>1, GenerateFacts
    <3> QED
      BY <1>2, <2>1, <3>2 DEF Confirmed
  <2> QED BY <1>3, <2>2
<1>6. CASE ResumeDerive
  <2>1. worker.action = "regenerate_comparisons"
    BY <1>6, ResumesFacts, ResumptionFacts DEF ResumeDerive
  <2>2. CASE flow' # flow
    <3>1. PICK r \in RegenerateComparisons(flow, clock) : flow' = r.flow
      BY <1>6, <2>2 DEF ResumeDerive, NextSet, ImageResult
    <3>2. /\ flow'.attempt = flow.attempt /\ flow'.saved = flow.saved
          /\ flow'.state = flow.state \/ flow'.state # "fetching"
      BY <1>1, <3>1, RegenerateComparisonsFacts
    <3> QED
      BY <1>2, <2>1, <3>2 DEF Confirmed
  <2> QED BY <1>3, <2>2
<1>7. CASE ResumeApproveReference
  <2>1. /\ gen.at = "reference" /\ Fits(worker.action, preparations)
        /\ worker.action \notin {"start", "revise", "reset", "regenerate",
                                 "without_images"}
    BY <1>7, ResumesFacts, ResumptionFacts DEF ResumeApproveReference
  <2>2. worker.action = "comparison"
    BY <2>1 DEF Fits
  <2>3. PICK r \in ApproveReference(flow, clock) : flow' = r.flow
    BY <1>7 DEF ResumeApproveReference, ImageResult
  <2>4. /\ flow'.attempt = flow.attempt /\ flow'.saved = flow.saved
        /\ flow'.state = flow.state \/ flow'.state # "fetching"
    BY <1>1, <2>3, ApproveReferenceFacts
  <2> QED
    BY <1>2, <2>2, <2>4 DEF Confirmed
<1>8. CASE ResumeSkip
  <2>1. PICK r \in SkipImages(flow) : flow' = r.flow
    BY <1>8 DEF ResumeSkip
  <2>2. r.ok \/ ~r.ok
    OBVIOUS
  <2> QED
    BY <1>1, <2>1, <2>2, SkipImagesFacts, FreeStep
<1>9. CASE Phase(ApproveImages(flow, clock), "progress0")
  <2>1. PICK r \in ApproveImages(flow, clock) : flow' = r.flow
    BY <1>9 DEF Phase
  <2> QED
    BY <1>1, <2>1, ApproveImagesFacts, FreeStep
<1>10. CASE Fetch
  <2>1. worker.action = "search"
    BY <1>10 DEF Fetch, At, IInv, PhaseInv
  <2>2. PICK r \in BeginFetch(flow) : flow' = r.flow
    BY <1>10 DEF Fetch, Phase
  <2>3. /\ flow'.attempt = flow.attempt /\ flow'.derived = flow.derived
        /\ flow'.saved = flow.saved
    BY <1>1, <2>2, PhaseFacts
  <2> QED
    BY <1>2, <2>1, <2>3 DEF Confirmed
<1>11. CASE Fetched \/ ConfirmAttributes \/ Evaluate \/ TakeSnapshot
  <2>1. PICK r \in EndFetch(flow) \cup Confirm(flow) \cup BeginComplete(flow)
                     \cup EndComplete(flow) : flow' = r.flow
    BY <1>11 DEF Fetched, ConfirmAttributes, Evaluate, TakeSnapshot, Phase
  <2>2. /\ flow'.attempt = flow.attempt /\ flow'.derived = flow.derived
        /\ flow'.saved = flow.saved
    BY <1>1, <2>1, PhaseFacts
  <2>3. flow'.state = flow.state \/ flow'.state # "fetching"
    BY <1>1, <2>1 DEF EndFetch, Confirm, BeginComplete, EndComplete, Returns,
                      Raises, Flows
  <2> QED
    BY <1>1, <2>2, <2>3, FreeStep
<1>12. CASE AnnounceSave /\ flow' # flow
  <2>1. worker.pc = "progress4" /\ ~cancelRequested
    BY <1>12, NoCancel DEF AnnounceSave
  <2> QED
    BY <1>12, <2>1 DEF AnnounceSave, CancelStops, Proceed, session
<1>13. CASE Save
  <2>1. worker.action \in {"search", "rank", "retry_save"} /\ flow.saved <= 1
        /\ flow.state = "history_pending"
    BY <1>13 DEF Save, At, IInv, PhaseInv, SavedInv
  <2>2. PICK r \in RetryHistory(flow) : flow' = r.flow
    BY <1>13 DEF Save
  <2>3. /\ flow'.attempt = flow.attempt /\ flow'.derived = flow.derived
        /\ flow'.state \in {"completed", "history_pending"}
    BY <1>1, <2>1, <2>2, RetryHistoryFacts
  <2> QED
    BY <1>2, <2>1, <2>3 DEF Confirmed
<1>14. \/ flow' = flow \/ ExecutePrepare \/ ResumeGenerate \/ ResumeDerive
       \/ ResumeApproveReference \/ ResumeSkip
       \/ Phase(ApproveImages(flow, clock), "progress0") \/ Fetch \/ Fetched
       \/ ConfirmAttributes \/ Evaluate \/ TakeSnapshot \/ AnnounceSave \/ Save
  BY DEF Next, WorkerStep, UserStep, WorkerTake, ExecuteReset, ExecuteRefused,
         ResumeRaises, ResumeShowFinal, ResumeSearch, ResumeRank, ResumeSave,
         Announce, Proceed, FetchEvent, Review, Verify, Commit, Snapshot,
         Cancel, Submit, Tick, session
<1> QED
  BY <1>3, <1>4, <1>5, <1>6, <1>7, <1>8, <1>9, <1>10, <1>11, <1>12, <1>13, <1>14

\* The generator never takes one command for another: every provider call and
\* every save is made for a command that asks for it (candidate_browser_steps).
THEOREM ConfirmedTheorem == Spec => OnlyConfirmedCalls
<1>1. ASSUME IInv, [Next]_vars
      PROVE  [Confirmed]_vars
  BY <1>1, StepConfirmed
<1> QED
  BY <1>1, Invariance, PTL DEF Spec, OnlyConfirmedCalls, Confirmed
=============================================================================
