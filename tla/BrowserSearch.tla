---------------------------- MODULE BrowserSearch ----------------------------
(***************************************************************************)
(* The browser search: the command controller BrowserSearch                *)
(* (src/search_v2/browser_search.py), the run behind it (BrowserCandidate- *)
(* Run and the generator candidate_browser_steps of browser_candidate.py)  *)
(* and the CandidateSearchFlow that the generator drives.                  *)
(*                                                                         *)
(* HTTP threads take snapshots and submit commands under the controller's  *)
(* lock; one worker thread executes the accepted command, calls progress() *)
(* under the same lock between its phases and installs the next view.  The *)
(* controller knows the run only through the views it is given, so the     *)
(* stage the user acts on, BrowserCandidateRun._stage, the position of the *)
(* generator and the state of the flow are four separate variables.        *)
(*                                                                         *)
(* A command is its action and the revision it was made for; its operation *)
(* id stands for the pair (cancel, revision) or (do, revision), so an old  *)
(* id that comes again, with the same or another action, is found in       *)
(* commands.  The controller is editable, as browser_search_server.py      *)
(* always makes it.  Prompts, products and texts are left out.             *)
(***************************************************************************)
EXTENDS CandidateFlow, Sequences, FiniteSets

CONSTANTS
    MaxPreparations,  \* preparations between two resets (3)
    MaxCommands,      \* accepted commands between two resets (32)
    MaxImageSets,     \* MAX_BROWSER_IMAGE_SETS
    MaxEvents,        \* bound: progress events of the product worker
    MaxTime,          \* bound: the clock stops here
    MaxRevision       \* bound: no command is made for a later revision

ASSUME BrowserSearchAssumption ==
    /\ MaxPreparations \in Nat /\ MaxCommands \in Nat
    /\ MaxImageSets \in Nat /\ MaxEvents \in Nat
    /\ MaxTime \in Nat /\ MaxRevision \in Nat

VARIABLES
    view,             \* _view: stage, revision and the set of can... flags
    commands,         \* _commands
    deadline,         \* _deadline
    preparations,     \* _preparations
    cancelRequested,  \* _cancel_requested
    jobs,             \* the work queue of the ThreadPoolExecutor
    worker,           \* the worker thread
    run,              \* BrowserCandidateRun
    gen,              \* the generator: the yield it waits at, its image sets
    flow,             \* the CandidateSearchFlow of the last preparation
    clock

controller == <<view, commands, deadline, preparations, cancelRequested>>
session    == <<run, gen, flow>>
vars       == <<controller, jobs, worker, session, clock>>

-----------------------------------------------------------------------------
(* The controller *)

\* _ACTIONS
StageAction == [idle |-> "start", query |-> "reference",
                reference |-> "comparison", comparison |-> "final",
                final |-> "search", attributes |-> "rank"]

Actions == {"start", "revise", "reset", "reference", "comparison", "final",
            "search", "rank", "without_images", "regenerate",
            "regenerate_comparisons", "retry_save"}

Flags == {"generate", "skip", "regenerate", "regenerate_comparisons",
          "retry_save", "cancel"}

Stages == DOMAIN StageAction \cup
    {"working", "clarification", "complete", "failed", "cancelled", "expired"}

\* _expire
ExpiredSilently(v, d, now) ==                                \* mutant
    IF d # Never /\ now >= d /\ v.stage \in DOMAIN StageAction \ {"idle"}
    THEN [v EXCEPT !.stage = "expired"] ELSE v
Expired(v, d, now) ==
    IF d # Never /\ now >= d /\ v.stage \in DOMAIN StageAction \ {"idle"}
    THEN [v EXCEPT !.stage = "expired", !.revision = @ + 1] ELSE v

\* What snapshot() reports as canRevise
Revisable == {"query", "clarification", "reference", "comparison", "final",
              "failed", "expired", "cancelled"}
CanRevise(v) == v.stage \in Revisable /\ preparations < MaxPreparations

\* Does the view offer the action?
OfferedFinalTwice(v, a) ==                                   \* mutant
    \/ v.stage \in {"comparison", "final"} /\ a = "final"
    \/ v.stage = "final" /\ a = "search"
    \/ v.stage = "idle" /\ a = "start"
    \/ v.stage = "query" /\ a \in {"reference", "without_images"}
    \/ v.stage = "reference" /\ a = "comparison"
Offered(v, a) ==
    \/ /\ v.stage \in DOMAIN StageAction /\ StageAction[v.stage] = a
       /\ a = "reference" => "generate" \in v.can
    \/ /\ a = "without_images" /\ "skip" \in v.can
       /\ v.stage \in {"query", "reference", "comparison", "final", "expired",
                       "failed"}
    \/ a = "revise" /\ CanRevise(v)
    \/ a = "reset" /\ v.stage # "working"
    \/ /\ a = "regenerate" /\ "regenerate" \in v.can
       /\ v.stage \in {"reference", "comparison", "final", "failed", "expired"}
    \/ /\ a = "regenerate_comparisons" /\ "regenerate_comparisons" \in v.can
       /\ v.stage \in {"comparison", "final", "failed"}
    \/ a = "retry_save" /\ "retry_save" \in v.can /\ v.stage = "complete"

\* The limits on preparations and on remembered commands
WithinLimits(a) ==
    /\ a \in {"start", "revise"} => preparations < MaxPreparations
    /\ a # "reset" => Cardinality(commands) < MaxCommands

\* The view once a command is accepted: a preparation forgets every flag.
Working(v, a) ==
    [stage |-> "working", revision |-> v.revision + 1,
     can |-> IF a \in {"start", "revise"} THEN {} ELSE v.can \ {"cancel"}]

-----------------------------------------------------------------------------

Idle == [pc |-> "idle", action |-> "reset", out |-> "idle", events |-> 0]

Init ==
    /\ view = [stage |-> "idle", revision |-> 0, can |-> {}]
    /\ commands = {} /\ deadline = Never /\ preparations = 0
    /\ cancelRequested = FALSE
    /\ jobs = <<>> /\ worker = Idle
    /\ run = [stage |-> "idle", started |-> FALSE, preparations |-> 0]
    /\ gen = [at |-> "none", sets |-> 0]
    /\ flow = NewFlow("text_only")
    /\ clock = 0

\* snapshot(); also a submit() that is refused or that repeats a command
Snapshot ==
    /\ view' = Expired(view, deadline, clock)
    /\ view' # view
    /\ UNCHANGED <<commands, deadline, preparations, cancelRequested, jobs,
                   worker, session, clock>>

\* submit() of a command for revision r.  The id of a command is looked up
\* first, then its revision, then whether the view offers it.
Accepts(v, a, r) ==
    /\ <<"do", r>> \notin commands
    /\ r = v.revision
    /\ Offered(v, a) /\ WithinLimits(a)

Submit(a, r) ==
    LET v == Expired(view, deadline, clock) IN
    /\ r <= MaxRevision
    /\ Accepts(v, a, r)
    /\ view' = Working(v, a)
    /\ commands' = (IF a = "reset" THEN {} ELSE commands) \cup {<<"do", r>>}
    /\ deadline' = IF a = "reset" THEN Never ELSE deadline
    /\ preparations' = CASE a = "reset" -> 0
                         [] a \in {"start", "revise"} -> preparations + 1
                         [] OTHER -> preparations
    /\ cancelRequested' = FALSE
    /\ jobs' = Append(jobs, a)
    /\ UNCHANGED <<worker, session, clock>>

\* submit() of a cancel command: the revision stays.
Cancel(r) ==
    /\ <<"cancel", r>> \notin commands
    /\ r = view.revision
    /\ "cancel" \in view.can /\ view.stage = "working"
    /\ commands' = commands \cup {<<"cancel", r>>}
    /\ cancelRequested' = TRUE
    /\ view' = [view EXCEPT !.can = @ \ {"cancel"}]
    /\ UNCHANGED <<deadline, preparations, jobs, worker, session, clock>>

-----------------------------------------------------------------------------
(* The end of _run: the view of the last yield, or of the exception, is    *)
(* laid over the previous one.  A flag it does not name keeps its value.   *)

\* out: where the generator yielded, or how the command ended otherwise
Outs == {"query", "clarification", "reference", "comparison", "final",
         "final_skip", "image_failed", "attributes", "unsaved", "complete",
         "error", "cancelled", "idle"}

OutStage(out) ==
    CASE out = "final_skip" -> "final"
      [] out \in {"image_failed", "error"} -> "failed"
      [] out = "unsaved" -> "complete"
      [] OTHER -> out

Remaining == MaxImageSets - gen.sets

\* The flags the view names, and those of them that are set
Named(out) ==
    CASE out = "query" -> {"skip", "generate"}
      [] out \in {"reference", "comparison", "final", "image_failed",
                  "final_skip"} ->
           {"skip", "regenerate", "regenerate_comparisons"}
      [] out = "unsaved" ->
           {"skip", "regenerate", "regenerate_comparisons", "retry_save"}
      [] out = "complete" -> {"skip", "regenerate", "retry_save"}
      [] out \in {"error", "cancelled"} -> {"skip"}
      [] out = "idle" -> Flags
      [] OTHER -> {}

Set(out) ==
    CASE out = "query" ->
           {"skip"} \cup (IF flow.images = "allowed" THEN {"generate"} ELSE {})
      [] out = "reference" ->
           {"skip"} \cup (IF Remaining > 0 THEN {"regenerate"} ELSE {})
      [] out \in {"comparison", "final"} ->
           {"skip"} \cup (IF Remaining > 0
                          THEN {"regenerate", "regenerate_comparisons"} ELSE {})
      [] out = "image_failed" ->
           {"skip"} \cup (IF Remaining > 0 THEN {"regenerate"} ELSE {})
             \cup (IF Remaining > 0 /\ flow.reference = "held"
                   THEN {"regenerate_comparisons"} ELSE {})
      [] out = "unsaved" -> {"retry_save"}
      [] OTHER -> {}

NextView(out) ==
    [view EXCEPT !.stage = OutStage(out),
                 !.can = ((@ \ Named(out)) \cup Set(out)) \ {"cancel"}]

CommitNotCancelled ==                                        \* mutant
    /\ worker.pc = "commit" /\ worker.out # "cancelled"
    /\ deadline' = Never
    /\ view' = NextView(worker.out)
    /\ worker' = Idle
    /\ UNCHANGED <<commands, preparations, cancelRequested, jobs, session, clock>>
Commit ==
    /\ worker.pc = "commit"
    /\ deadline' = IF worker.out \in {"comparison", "final"}
                   THEN flow.expires ELSE Never
    /\ view' = Expired(NextView(worker.out), deadline', clock)
    /\ worker' = Idle
    /\ UNCHANGED <<commands, preparations, cancelRequested, jobs, session, clock>>

-----------------------------------------------------------------------------
(* BrowserCandidateRun.execute on the worker thread *)

WorkerTake ==
    /\ worker.pc = "idle" /\ jobs # <<>>
    /\ worker' = [Idle EXCEPT !.pc = "execute", !.action = Head(jobs)]
    /\ jobs' = Tail(jobs)
    /\ UNCHANGED <<controller, session, clock>>

At(pc) == worker.pc = pc /\ UNCHANGED <<controller, jobs, clock>>

GoTo(pc) == worker' = [worker EXCEPT !.pc = pc]
EndWith(out) == worker' = [worker EXCEPT !.pc = "commit", !.out = out]

\* The generator yields; execute records the stage of the view it returns
\* and closes a generator whose work is saved.
Yield(out, sets) ==
    /\ gen' = [at |-> IF out = "complete" THEN "ended" ELSE out, sets |-> sets]
    /\ run' = [run EXCEPT !.stage = OutStage(out)]
    /\ EndWith(out)

\* An exception leaves the generator, which is finished by it; the stage
\* that execute recorded stays.
Raise(out) ==
    /\ gen' = [gen EXCEPT !.at = "ended"]
    /\ EndWith(out)
    /\ UNCHANGED run

ExecuteReset ==
    /\ At("execute") /\ worker.action = "reset"
    /\ run' = [stage |-> "idle", started |-> FALSE, preparations |-> 0]
    /\ gen' = [at |-> "none", sets |-> 0]
    /\ EndWith("idle")
    /\ UNCHANGED flow

\* Does execute refuse a start or revise that the controller accepted?
PrepareRefused(a) ==
    \/ run.preparations >= MaxPreparations
    \/ a = "revise" /\ run.stage \notin Revisable
    \/ a = "start" /\ run.started

ExecuteRefused ==
    /\ At("execute") /\ worker.action \in {"start", "revise"}
    /\ PrepareRefused(worker.action)
    /\ EndWith("error")
    /\ UNCHANGED session

\* The old generator is closed, the source is analysed, the factory called:
\* a plan to review, a source that needs clarification, or a failure.
ExecutePrepare ==
    /\ At("execute") /\ worker.action \in {"start", "revise"}
    /\ ~PrepareRefused(worker.action)
    /\ \E out \in {"query", "clarification", "error"},
          images \in {"allowed", "text_only"} :
          /\ run' = [stage |-> OutStage(out), started |-> TRUE,
                     preparations |-> run.preparations + 1]
          /\ gen' = [at |-> IF out = "query" THEN "query" ELSE "ended",
                     sets |-> 0]
          /\ flow' = NewFlow(images)
          /\ out # "query" => images = "text_only"
          /\ EndWith(out)

-----------------------------------------------------------------------------
(* candidate_browser_steps: what it does with a command is decided by the  *)
(* yield it waits at.                                                      *)

Resumption(at, a) ==
    CASE at = "query" /\ a = "reference" -> "generate"
      [] at \in {"query", "reference", "comparison", "final", "image_failed"}
           /\ a = "without_images" -> "skip"
      [] at \in {"reference", "comparison", "final", "image_failed"}
           /\ a = "regenerate" -> "generate"
      [] at \in {"comparison", "final", "image_failed"}
           /\ a = "regenerate_comparisons" -> "derive"
      [] at = "reference" /\ a \notin {"regenerate", "without_images"} ->
           "approve_reference"
      [] at = "comparison" /\ a \notin {"regenerate", "without_images",
           "regenerate_comparisons"} -> "show_final"
      [] at = "final" /\ a \notin {"regenerate", "without_images",
           "regenerate_comparisons"} -> "approve_images"
      [] at = "final_skip" -> "search"
      [] at = "attributes" /\ a = "rank" -> "rank"
      [] at = "unsaved" /\ a = "retry_save" -> "save"
      [] OTHER -> "raise"

Resumes(step) ==
    /\ At("execute") /\ worker.action \notin {"reset", "start", "revise"}
    /\ (IF run.started THEN Resumption(gen.at, worker.action) ELSE "raise") = step

\* A command the generator cannot take, or that comes after its end; also a
\* query index that the plan does not have.
ResumeRaises ==
    /\ \/ Resumes("raise")
       \/ gen.at = "query" /\ (Resumes("generate") \/ Resumes("skip"))
    /\ Raise("error")
    /\ UNCHANGED flow

\* The except clause of the image loop: only image_failed is offered again.
ImageResultAnyway(results, out, sets) ==                     \* mutant
    \E r \in results : flow' = r.flow /\ Yield(out, sets)
ImageResult(results, out, sets) ==
    \E r \in results :
        /\ flow' = r.flow
        /\ IF r.ok THEN Yield(out, sets)
           ELSE IF r.flow.state = "image_failed"
           THEN Yield("image_failed", sets) ELSE Raise("error")

\* The limit on image sets is tested before the next set is begun, outside
\* the try statement.
NextSet(results, out) ==
    IF gen.sets < MaxImageSets
    THEN ImageResult(results, out, gen.sets + 1)
    ELSE Raise("error") /\ UNCHANGED flow

ResumeGenerate ==
    /\ Resumes("generate")
    /\ NextSet(GenerateReference(flow,
                   IF gen.sets = 0 THEN {"planned"}
                   ELSE {"reference_review", "images_review",
                         "images_approved", "image_failed"}), "reference")

ResumeDeriveUncounted ==                                     \* mutant
    /\ Resumes("derive")
    /\ ImageResult(RegenerateComparisons(flow, clock), "comparison", gen.sets)
ResumeDerive ==
    /\ Resumes("derive")
    /\ NextSet(RegenerateComparisons(flow, clock), "comparison")

ResumeApproveReference ==
    /\ Resumes("approve_reference")
    /\ ImageResult(ApproveReference(flow, clock), "comparison", gen.sets)

ResumeShowFinal ==
    /\ Resumes("show_final")
    /\ Yield("final", gen.sets)
    /\ UNCHANGED flow

ResumeSkip ==
    /\ Resumes("skip")
    /\ \E r \in SkipImages(flow) :
          /\ flow' = r.flow
          /\ IF r.ok THEN Yield("final_skip", gen.sets) ELSE Raise("error")

\* A method of the flow in the middle of a command: on to the next phase, or
\* the exception ends the command.
Phase(results, pc) ==
    \E r \in results :
        /\ flow' = r.flow
        /\ IF r.ok THEN GoTo(pc) /\ UNCHANGED <<run, gen>> ELSE Raise("error")

ResumeSearch ==
    \/ Resumes("approve_images") /\ Phase(ApproveImages(flow, clock), "progress0")
    \/ Resumes("search") /\ GoTo("progress0") /\ UNCHANGED session

ResumeRank ==
    /\ Resumes("rank")
    /\ GoTo("progress2")
    /\ UNCHANGED session

-----------------------------------------------------------------------------
(* The phases of search, rank and retry_save *)

\* progress(step): a cancel is accepted from step 0 on and during the fetch;
\* a progress() outside the fetch ends a command whose cancel was accepted.
CancelStopsNever == FALSE                                    \* mutant
CancelStops == cancelRequested

Cancellable(fetching, step) == (step = 0 \/ fetching) /\ ~cancelRequested

Progressed(fetching, step) ==
    [view EXCEPT !.revision = @ + 1,
                 !.can = IF Cancellable(fetching, step)
                         THEN @ \cup {"cancel"} ELSE @ \ {"cancel"}]

Proceed(fetching, step, pc) ==
    /\ view' = Progressed(fetching, step)
    /\ GoTo(pc)
    /\ UNCHANGED <<commands, deadline, preparations, cancelRequested, jobs,
                   session, clock>>

\* progress() of the generator; <<pc, step, the phase it announces>>
Announcements == {<<"progress0", 0, "fetch">>, <<"progress1", 1, "fetched">>,
                  <<"progress2", 2, "confirm">>, <<"progress3", 3, "evaluate">>,
                  <<"progress5", 4, "verify">>}

Announce(a) ==
    /\ worker.pc = a[1]
    /\ \/ ~CancelStops /\ Proceed(FALSE, a[2], a[3])
       \/ CancelStops /\ At(a[1]) /\ Raise("cancelled") /\ UNCHANGED flow

\* progress(4) inside complete, whose except clause takes BrowserCancelled
\* for a failure like any other
AnnounceSave ==
    /\ worker.pc = "progress4"
    /\ IF CancelStops
       THEN /\ At("progress4") /\ Raise("error")
            /\ flow' = [flow EXCEPT !.state = "failed"]
       ELSE Proceed(FALSE, 4, "snapshot")

Fetch == At("fetch") /\ Phase(BeginFetch(flow), "fetching")

\* The product worker reports its second phase: progress(1, during_fetch).
FetchEvent ==
    /\ worker.pc = "fetching" /\ worker.events < MaxEvents
    /\ view' = Progressed(TRUE, 1)
    /\ worker' = [worker EXCEPT !.events = @ + 1]
    /\ UNCHANGED <<commands, deadline, preparations, cancelRequested, jobs,
                   session, clock>>

Fetched == At("fetching") /\ Phase(EndFetch(flow), "progress1")

\* Are there attributes the user has to choose?
Review ==
    /\ At("fetched")
    /\ \/ Yield("attributes", gen.sets)
       \/ GoTo("progress2") /\ UNCHANGED <<run, gen>>
    /\ UNCHANGED flow

ConfirmAttributes == At("confirm") /\ Phase(Confirm(flow), "progress3")
Evaluate == At("evaluate") /\ Phase(BeginComplete(flow), "progress4")
TakeSnapshot == At("snapshot") /\ Phase(EndComplete(flow), "save")

ResumeSave == Resumes("save") /\ GoTo("save") /\ UNCHANGED session

\* retry_history, from complete or from retry_save: a failure keeps the
\* result on the screen.
SaveRaises ==                                                \* mutant
    /\ At("save")
    /\ \E r \in RetryHistory(flow) :
          /\ flow' = r.flow
          /\ IF r.ok THEN GoTo("progress5") /\ UNCHANGED <<run, gen>>
             ELSE Raise("error")
Save ==
    /\ At("save")
    /\ \E r \in RetryHistory(flow) :
          /\ flow' = r.flow
          /\ IF r.ok THEN GoTo("progress5") /\ UNCHANGED <<run, gen>>
             ELSE IF r.flow.state = "history_pending"
             THEN Yield("unsaved", gen.sets) ELSE Raise("error")

\* The saved history is read back.
Verify ==
    /\ At("verify")
    /\ Yield("complete", gen.sets) \/ Raise("error")
    /\ UNCHANGED flow

-----------------------------------------------------------------------------

Tick ==
    /\ clock < MaxTime
    /\ clock' = clock + 1
    /\ UNCHANGED <<controller, jobs, worker, session>>

WorkerStep ==
    \/ WorkerTake \/ ExecuteReset \/ ExecuteRefused \/ ExecutePrepare
    \/ ResumeRaises \/ ResumeGenerate \/ ResumeDerive
    \/ ResumeApproveReference \/ ResumeShowFinal \/ ResumeSkip
    \/ ResumeSearch \/ ResumeRank \/ ResumeSave
    \/ \E a \in Announcements : Announce(a)
    \/ AnnounceSave \/ Fetch \/ FetchEvent \/ Fetched \/ Review
    \/ ConfirmAttributes \/ Evaluate \/ TakeSnapshot \/ Save \/ Verify
    \/ Commit

UserStep ==
    \/ Snapshot
    \/ \E r \in 0..view.revision + 1 :
          Cancel(r) \/ \E a \in Actions : Submit(a, r)

Next == WorkerStep \/ UserStep \/ Tick

Spec == Init /\ [][Next]_vars

\* The worker thread runs, and every provider, model and database call below
\* it returns or raises (each has a timeout).  Nothing is assumed of users.
FairSpec == Spec /\ WF_vars(WorkerStep)

-----------------------------------------------------------------------------
(* Safety *)

\* The variables keep their types.
TypeOK ==
    /\ view \in [stage : Stages, revision : Nat, can : SUBSET Flags]
    /\ commands \subseteq {"do", "cancel"} \X Nat
    /\ deadline \in Nat \cup {Never} /\ preparations \in Nat
    /\ cancelRequested \in BOOLEAN
    /\ jobs \in Seq(Actions)
    /\ worker \in [pc : {"idle", "execute", "commit", "fetch", "fetching",
                         "fetched", "confirm", "evaluate", "snapshot", "save",
                         "verify", "progress0", "progress1", "progress2",
                         "progress3", "progress4", "progress5"},
                   action : Actions, out : Outs, events : Nat]
    /\ run \in [stage : Stages, started : BOOLEAN, preparations : Nat]
    /\ gen \in [at : Outs \cup {"none", "ended"}, sets : Nat]
    /\ flow \in Flows /\ clock \in Nat

\* The user never acts on a stage that the search is not in: whenever the
\* controller shows a stage with a next action, the generator waits at the
\* yield of that stage, execute recorded it, and the flow is in the state the
\* action needs.  The four are only connected through the views.
StageMatchesSearch ==
    /\ view.stage = "query" =>
         run.stage = "query" /\ gen.at = "query" /\ flow.state = "planned"
    /\ view.stage = "reference" =>
         /\ run.stage = "reference" /\ gen.at = "reference"
         /\ flow.state = "reference_review"
    /\ view.stage = "comparison" =>
         /\ run.stage = "comparison" /\ gen.at = "comparison"
         /\ flow.state = "images_review" /\ deadline = flow.expires
    /\ view.stage = "final" =>
         /\ run.stage = "final"
         /\ \/ /\ gen.at = "final" /\ flow.state = "images_review"
               /\ deadline = flow.expires
            \/ gen.at = "final_skip" /\ flow.state = "images_skipped"
    /\ view.stage = "attributes" =>
         /\ run.stage = "attributes" /\ gen.at = "attributes"
         /\ flow.state = "attribute_review"
    /\ view.stage = "complete" =>
         IF "retry_save" \in view.can
         THEN gen.at = "unsaved" /\ flow.state = "history_pending"
         ELSE flow.state = "completed" /\ flow.saved = 1

\* The stage is working exactly while one accepted command is queued or
\* executed: no two commands are ever executed side by side or in a row
\* without a view in between, and no finished command leaves working behind.
WorkingIffBusy ==
    /\ Len(jobs) <= 1
    /\ jobs # <<>> => worker.pc = "idle"
    /\ view.stage = "working" <=> (jobs # <<>> \/ worker.pc # "idle")

\* The view is what the search is at, waiting or working.
ViewMatchesSearch == TypeOK /\ StageMatchesSearch /\ WorkingIffBusy

\* "Search cancelled; no comparison and no save after the retrieval was done":
\* once a cancel was accepted the products are never ranked or saved, however
\* the cancel interleaves with the phases of the worker.
CancelWins ==
    cancelRequested =>
        /\ view.stage \in {"working", "cancelled", "failed"}
        /\ flow.state \in {"images_approved", "images_skipped", "fetching",
                           "attribute_review", "failed"}
        /\ flow.saved = 0

\* The paid image calls of one preparation: one reference and at most three
\* comparisons per image set, and no more than MAX_BROWSER_IMAGE_CALLS.
ImageBudget == flow.attempt + 3 * flow.derived <= 4 * MaxImageSets

\* docs/BACKEND.md:115: a result whose save failed is retained, and retry_save
\* saves it without doing anything else over.  Whether the save failed before
\* or after its commit, the result stays on the screen with the retry offered,
\* and no command but the retry and the reset that gives it up is taken for it;
\* and the flow of a search that has a row in the history never goes back,
\* fails or begins anything again.
ResultIsKept ==
    /\ flow.state = "history_pending" /\ run.started =>
         /\ view.stage # "working" =>
              view.stage = "complete" /\ "retry_save" \in view.can
         /\ jobs # <<>> => Head(jobs) \in {"retry_save", "reset"}
         /\ worker.pc = "execute" => worker.action \in {"retry_save", "reset"}
    /\ flow.saved # 0 => flow.state \in {"history_pending", "completed"}

\* Every provider call and every save is made for a command of the user that
\* asks for it: the generator never takes one command for another.
OnlyConfirmedCalls ==
    [][/\ flow'.attempt > flow.attempt =>
             worker.action \in {"reference", "regenerate"}
       /\ flow'.derived > flow.derived =>
             worker.action \in {"comparison", "regenerate_comparisons"}
       /\ flow'.state = "fetching" /\ flow.state # "fetching" =>
             worker.action = "search"
       /\ flow'.saved > flow.saved =>
             worker.action \in {"search", "rank", "retry_save"}]_vars

\* "Duplicate commands never repeat provider calls": a view the user can act
\* on changes only together with its revision, so a command that was made for
\* an older view, or that arrives again, even after reset cleared the list of
\* commands, finds another revision.
ViewsAreVersioned ==
    [][view.stage # "working" /\ view' # view =>
          view'.revision > view.revision]_vars

-----------------------------------------------------------------------------
(* Liveness *)

\* Every accepted command ends with a view the user can act on.
WorkingEnds == (view.stage = "working") ~> (view.stage # "working")

\* An accepted cancel ends the search.
CancelEnds == cancelRequested ~> (view.stage \in {"cancelled", "failed"})

\* Every command comes to its end, also the one that is cancelled while it runs.
CommandsEnd == WorkingEnds /\ CancelEnds

-----------------------------------------------------------------------------
(* What the documents say and the code does not do *)

\* docs/FRONTEND.md:78 lists, for an expired or failed run, a new image set
\* within the remaining number and the revision of the conditions: a revise
\* that the view offers is not refused by the run, and a regenerate that it
\* offers finds a generator that can still take it.
OffersHonoured ==
    view.stage = "failed" =>
        /\ worker.pc = "idle" /\ jobs = <<>> /\ CanRevise(view)
              => ~PrepareRefused("revise")
        /\ Offered(view, "regenerate")
              => Resumption(gen.at, "regenerate") # "raise"
=============================================================================
