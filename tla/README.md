# TLA+ verification of the Amazon similarity search

This directory models the core of the repository in TLA+: modules that TLC checks
exhaustively on bounded instances, and theorems that TLAPS checks for every value
of the constants. Paths below are relative to the repository root.

## 1. The system

The program turns a Japanese description of a product into an Amazon search,
optionally with generated reference images, and ranks what it finds. Two front
doors share most of the code below them; a third program reviews changes of the
code itself.

* The **production API** (`src/search_v2/production_api.py`) accepts an
  approved search, puts it into a local **job queue**
  (`src/search_v2/search_job.py`) and lets one worker thread run
  `production_search.py`: retrieve products from Outscraper, evaluate and rank
  them, save a history entry and return its locator.
* The **browser canary** (`tools/browser_search_server.py`) drives
  `BrowserSearch` (`src/search_v2/browser_search.py`), a single-worker command
  controller over a server-owned generator of review stages
  (`browser_candidate.py`) which in turn drives `CandidateSearchFlow`
  (`candidate_flow.py`).
* The **AI review** (`tools/ai_review`) walks a candidate commit through seven
  phases, two of which run something outside (the tests, and two paid model calls
  behind containers and networks made for them), and signs and judges the result.

### Inventory

| Component | Source | State it keeps | Operations |
|---|---|---|---|
| Local search job queue | `src/search_v2/search_job.py` | SQLite `search_jobs`; in memory the queue, `_accepting`, the cancel events | submit, get, cancel, claim, finish, recover, purge, shutdown |
| Browser command controller | `src/search_v2/browser_search.py` | one view (stage, revision, offered actions), accepted commands, deadline, cancel flag | submit, snapshot, progress, `_run` |
| Browser stage generator | `src/search_v2/browser_candidate.py` | the generator's position, its image attempts; `BrowserCandidateRun`'s own stage, started, preparations | execute (start, revise, reset, send), close |
| Candidate flow | `src/search_v2/candidate_flow.py` | `_state`, attempt counters, approved references, pending history | select, generate, regenerate, approve, fetch, confirm, complete, retry |
| Usage ledger | `src/search_v2/usage_ledger.py` | reservations by id, provider policies | reserve, start, finish, release, snapshot, from_snapshot |
| Search session machine | `src/search_v2/state_machine.py`, `product_pipeline.py` | immutable session with revision; approval grants, single-use ledger | one transition function per event, claim |
| Session orchestrator | `src/search_v2/orchestrator.py` | reference image review registry under `_REFERENCE_LOCK`; provider calls around ledger and machine | generate, approve, skip, authorize, run |
| Production API and runner | `src/search_v2/production_api.py`, `production_search.py` | submission store with 15 minute capabilities | submit, job get/cancel, run |
| History repositories | `history_repository.py`, `provisional_history_repository.py`, `browser_history.py` | SQLite histories and images with retention, in several databases | save, list, get, delete, purge |
| Counterfactual approvals | `provisional_approval_repository.py` | SQLite single-use review approvals | issue, consume |
| Provider clients | `outscraper_http.py`, `cloudflare_http.py`, `counterfactual_cloudflare_http.py`, `bonsai_*.py` | per call: polling state, usage reservation | execute |
| Planning and intent | `candidate_queries`, `candidate_search`, `bonsai_adapter`, `intent`, `typed_requirements`, ... | none (pure), one plan per search | prepare, ask, ground |
| Normalisation and ranking | `product_*`, `ranking`, `typed_ranking`, `condition_weighting`, ... | none (pure) | normalise, evaluate, rank |
| Image evaluation | `image_proxy*`, `image_similarity*`, `siglip2`, `clipseg_regions`, ... | child processes with deadlines | encode, fetch |
| Legacy CLI | `src/main`, `src/clients`, `src/services`, `src/repositories` | JSON cache file | one sequential run |
| AI review | `tools/ai_review/*` | workflow state, reservation ledger, nonce ledger; containers and networks of the runtime | prepare and finalize per phase, broker execution, judge |
| Frontend | `frontend/src` | React state | polling, commands |

### How the components interact

* **Calls.** A request handler calls `LocalSearchJobExecutor.submit/get/cancel`;
  the executor's single worker thread calls the production runner back and gives
  it a `checkpoint` that raises once the job's cancel event is set. The browser
  controller hands each accepted command to a one-thread `ThreadPoolExecutor`;
  the worker resumes the generator, the generator calls `CandidateSearchFlow`,
  and between its phases it calls the controller's `progress()` back.
* **Shared state.** `search_jobs` in SQLite (one `BEGIN IMMEDIATE` transaction per
  repository method) plus the executor's in-memory events; the controller's view
  under its lock; `_REFERENCE_REVIEWS` under `_REFERENCE_LOCK`; the usage ledger
  and the ledger of consumed approvals, each under a lock of its own.
* **Immutable values.** Reviews, plans, sessions and approvals are frozen
  contracts that a caller keeps and may pass in again at any time, in any order
  and from any thread. Only the shared registries decide whether they still count.
* **Processes.** The AI review's outer driver and its coordinator exchange messages
  that are chained by digest; its broker executor issues one command of the container
  runtime after another. Two reviews share the worktree, the runtime and the nonce
  ledger. Two history servers share database files.

### What is hard, and what makes each component correct

| Component | Hard behaviour | It is correct when |
|---|---|---|
| Job queue | clocks read before the transaction, events set after it, process exits between any two steps, a wall clock set back, a transaction the storage fails | every row stays readable, a callback runs at most once, an acknowledged cancel is never overridden and none is invented, no job is lost but one whose own transaction the storage failed, a restart settles what was unfinished |
| Browser controller, generator, flow | four state machines advanced by one worker while HTTP threads submit, cancel and expire views | the stage shown is the one the search is in, one command at a time, a cancel stops before ranking, paid calls only for the command that asks, a result whose save failed is kept for its retry |
| Usage ledger | calls whose clock readings arrive in another order; days, sessions and owners overlap | no limit is exceeded counting failures, a started attempt stays charged, a snapshot can be restored |
| Session machine and pipeline | twenty transitions and one validator written apart, old reviews and plans, a clock set back, a provider answer that fails late | no legal transition is refused, what is searched is what was approved, every paid call is settled |
| Session orchestrator | reads outside the lock, unconditional registry writes, two threads with one token | one provider call per approval, no charge left open, bounded image attempts, replaced images stay replaced |
| Production API and runner | submission recorded after the job exists, history saved before the job is finished, polling that gives up on a task that may complete | one job and one task per command, no result without a finished task, no unexplained history, the worker is not held |
| History stores | reads of several statements against delete, purge and save of another server; copies, locks, unreadable files | a whole history is shown or none, deleted stays deleted, saved once, expired is gone |
| Planning and intent | four readers of one sentence, replies of a model that drop, invent or turn round | the plan says what the sentence says, or there is no plan |
| Normalisation and ranking | duplicates by ASIN and by URL, contracts that recompute what the ranking computed | every entry ranked once or rejected with a reason, "confirmed" only from evidence, no ranking refused after the retrieval was paid but for named causes |
| AI review | replies of another review, edits of the worktree, commands that fail with or without effect, equal resource names, deaths | one chain about one candidate, each role paid once behind its own gateway, nothing of another session removed, nothing of its own forgotten, a pass is earned |

`PROJECT.json` lists the most important hazards one by one, each at its line with the
properties that would catch it. Hazards of the same kind that a listed one already
stands for are left out of it.

## 2. Modules

| Module | Models | Uses |
|---|---|---|
| `SearchJob` | `search_job.py`: repository, executor, worker, clock, storage errors, process exits | `JobLifecycle` (refinement) |
| `JobLifecycle` | the abstract life cycle a caller of the queue sees | |
| `SearchJobProofs` | theorems about `SearchJob` | `SearchJob`, TLAPS |
| `CandidateFlow` | `candidate_flow.py`: one operator per method, giving its possible results | |
| `BrowserSearch` | `browser_search.py` and `browser_candidate.py`, driving the flow | `CandidateFlow` |
| `BrowserSearchProofs` | theorems about `BrowserSearch` | `BrowserSearch`, TLAPS |
| `UsageLedger` | `usage_ledger.py` | |
| `SearchOrchestrator` | `orchestrator.py` from the reference image to the product call, with the approval ledger of `state_machine.py` | |
| `SearchOrchestratorProofs` | theorems about `SearchOrchestrator` | `SearchOrchestrator`, TLAPS |
| `SearchSession` | `state_machine.py`, `product_pipeline.py`, and what the image and product clients do to a session | |
| `SearchSessionProofs` | theorems about `SearchSession` | `SearchSession`, TLAPS |
| `ProductionSearch` | `production_api.py`, `production_search.py`, `outscraper_http.py` over the queue as `JobLifecycle` promises it | |
| `ProductionSearchProofs` | theorems about `ProductionSearch` | `ProductionSearch`, TLAPS |
| `HistoryStores` | both history repositories, their snapshots, and the browser's several databases | |
| `StoresProofs` | theorems about `HistoryStores` and `UsageLedger` | both, TLAPS |
| `SourceReading` | the readers of the sentence: clauses, facts, prices, visual clauses | |
| `CandidatePreparation` | what the candidate route makes of what was read | `SourceReading` |
| `IntentGrounding` | which replies of the language model are taken on the typed routes | `SourceReading` |
| `ProductNormalization` | `product_normalization.py`: the entries kept and rejected | |
| `ProductEvaluation` | evidence, adjudication, weights and text scores of one product | `ProductNormalization` |
| `TypedRanking` | sort orders, picture components and their contracts | `ProductEvaluation` |
| `ProductSearch` | one search on the candidate, pipeline or provisional route, from the sentence to the saved ranking | the six above |
| `ProductSearchProofs` | theorems about `ProductSearch` | `ProductSearch`, TLAPS |
| `ReviewCandidate` | the candidate as a tree: policy, snapshots, runs of the tests, packet | |
| `BrokerBatch` | what the coordinator hands to the broker executor | |
| `BrokerEvidence` | what the executor records of a run and what is demanded of it | `BrokerBatch` |
| `BrokerExecution` | `broker_outer_executor.py`: networks, gateway, reservation, call, cleanup, command by command | `BrokerEvidence` |
| `AttestationBundle` | the bundle that is signed and the statements expected about it | `BrokerEvidence`, `ReviewCandidate` |
| `ReviewWorkflow` | driver, coordinator and judge over the seven phases | `BrokerExecution`, `AttestationBundle` |
| `ReviewWorkflowProofs` | theorems about `ReviewWorkflow` | `ReviewWorkflow`, TLAPS |
| `MC...` | symmetry sets and constants for TLC | |

A definition followed by the comment "mutant" is a faulty variant of a
definition below it. No specification uses it; it is there to show that a property
can tell the code from a plausible mistake (`mutants` in `PROJECT.json`).

### SearchJob

`rows` is the table (`NoRow` when a locator has none), `queue` and `events` the
executor's queue and cancel events, `flagged` the events that are set, `worker`
and `clients` the threads with their program counters and the time they read.
`GetJob`, `ClaimJob`, `CancelJob`, `FinishJob` and `RecoverJob` are the repository
methods as functions of a row and a time: they give the new row, or the row
unchanged when the code raises. A client's call is `GetBegin`/`GetTxn` or
`CancelBegin`/`CancelTxn`/`CancelSignal`: read the clock, transaction, set the event.
The worker goes through `WorkerTake`, `WorkerClaim`, `WorkerBegin`, `RunnerEnds`,
`WorkerFinish` and `WorkerDrop`, the six points at which `_run_one` can be
interrupted. `Exit` drops everything in memory at any of them; `Restart` is
`recover_interrupted`. `Tick` and `Regress` move the clock. The runner's callback
is an opaque call that succeeds, fails or, if its event is set, stops. `starts`,
`acked`, `unstored` and `regressed` are history variables.

Every repository method maps an `OSError` or `sqlite3.Error` to
`SearchJobStorageError`. `StorageError` says what that leaves: nothing is written, or,
when the COMMIT fails after it took effect, everything. A client's `get` or `cancel` may
meet one at any time. `submit`, `WorkerClaim` and `WorkerFinish` may too, and there it
costs a job its place: `submit` raises between the enqueue and the queue, and `_run_one`
swallows the error (search_job.py:1225), so the worker goes on to the next job while the
row keeps its status. `unstored` has the jobs this happened to since the process
started; they are the exceptions of `NoLostJob` and `JobsSettle`.

`JobLifecycle` sees only a status per job and the set of entered callbacks;
`LifecycleStatus` and `Entered` are the refinement mapping.

### CandidateFlow and BrowserSearch

`CandidateFlow` is a record with an operator per method; an operator gives the set
of outcomes, because a provider or a database may answer or fail.
`BrowserSearch` adds the controller's `view` (stage, revision and the set of
`can...` flags), `commands`, `deadline`, `preparations` and `cancelRequested`, the
worker, `run` (`BrowserCandidateRun`) and `gen` (the yield the generator waits at).
`Submit`, `Cancel` and `Snapshot` are the HTTP operations and run under the lock;
`Snapshot` may expire the view. `WorkerTake` starts a command, the `Resume...` and
phase actions are the code between two yields or `progress()` calls, and `Commit`
installs the view that results.

### UsageLedger

`ledger` is the sequence of reservations; `Reserve`, `Start`, `Finish` and
`Release` are the four methods, each with the time its caller read. `WouldExceed`
and `ValidSnapshot` translate the two places that compute the limits, when a
reservation is made and when a snapshot is restored.

### SearchOrchestrator

`registry` is the session's entry of `_REFERENCE_REVIEWS`, `usage` the session's
reservations, `consumed` the approval ledger. `reviews`, `images`, `searches` and
`grants` are all values ever returned; every call takes any of them. A function is
one step per lock section: `GenerateBegin` (reads the ledger), `GenerateLock`,
`GenerateReserve` or `GenerateRefused`, `GenerateCall`, `GeneratePublish`;
`ApproveReference`, `DeriveReserve` or `DeriveRefused`, `DeriveCall`,
`DerivePublish`; `SkipImagesBegin`, `SkipImagesDiscard`; `RunBegin`, `RunValidate`,
`RunReserve` or `RunRefused`, `RunClaim` or `RunClaimFails`, `RunCall`. A call that
is refused before it changes anything has no action. The limits of the usage
ledger appear as a reservation that may always be refused, and expiry as a refusal
that may always happen. Assumed: the clock is not set back (otherwise `finish` is
refused and the charge stays open), and the session has one intent review.

The session's own rules (which snapshot is legal, what an approval is bound to) are
the subject of `SearchSession`; this module is about its callers' threads.

### SearchSession

`session` is the snapshot the owner holds. `ValidSnapshot` translates
`validate_state_contract` and knows nothing of the transitions; each transition is an
operator from a snapshot to the next one (`Reviewed`, `Generating`, `WithImages`,
`Submitted`, `Completed`, ...), and `Advance` installs its result only if the
validator takes it, recording in `refused` when it does not, which is what
`ValidatorAgrees` is about. The image and product calls take several steps
(`StartImageSet`, `ImageMade`, `ImageSetDone` or `ImageFails`; `ReserveSearch`,
`Authorize`, `Poll`, `SearchSucceeds` or `SearchFails`) around one reservation in
`usage`. `review` keeps the last plan that was built, so a stale one can be used.
`Tick` and `SetBack` move the clock.

### ProductionSearch

`entries` is the submission store, `post` the POST that holds its lock; the job queue
is reduced to what `JobLifecycle` promises. `runner` is the job's callback with its
checkpoints, `charge` and `task` its reservation and its task at the provider, which
may complete, fail, stay pending or be lost, also after the client gave up. A POST may
fail after its job was accepted; the process may end at any step, losing what is in
memory.

### HistoryStores

`rows[d]` and `images[d]` are the tables of database `d`. A save, a delete and a purge
are one transaction; a read is `GetRow`, `GetRefs` and one `GetBody` per image, and a
list is `ListRows` and `ListRefs` per row, with other servers, the search's own save and
the clock in between. `broken` databases cannot be opened, a statement may find a
database locked, a database file may not exist yet.

### Sentences, products and rankings

A sentence is a sequence of clauses, a record each: what it is about, the values it
accepts, its strength words and its form. `SourceReading` says how each reader of the
code consumes such a clause; `CandidatePreparation` and `IntentGrounding` turn what
was read, and on the typed routes a reply of the language model, into a plan or a
refusal. `ProductSearch` then runs the search: `Prepare`, `Extract`, `Ask`, `Answer`,
`ApproveAndFetch`, `Deliver` (one entry of the response at a time), `FetchReturns`,
`Confirm`, `Rank` or `RankTyped` or `RankProvisional`, `CompleteImageFree` or
`CompleteWithImages`, `Save`, `Reopen`. The contracts that the code checks after a
ranking (scores, weights, order, history) are computed a second time from their own
sources, as the code does, and a refusal by one of them becomes `failure`. On the
candidate route `review` is the attribute review made from the products (what is asked,
the labels offered, the quantities that have none) and `selected` what was confirmed in
it. The ranking scores a product under `RankingLabels`, from the plan; its contract
scores the evaluation a row brings along under `ContractLabels`, from the review and the
selections, and compares (`RankingAccepted`). A sort is
said by places: a row stands behind as many rows as have a smaller key (`Place`), which
is `list.sort` as long as no two rows have one key; the index that ends every key sees
to that.

Abstracted: the characters of a clause; text matching is a number per condition;
all quantities have one unit; scores have no decimals and conditions are of weight
one; empty groups of a response are not delivered; the query plan of the candidate
route has exactly one query; registered boolean and semantic attributes, ambiguous
material words, title quotes and the finer verb rules are left out; margins of
pictures are constants.

### AI review

`wf[w]` is where the driver of review `w` is: `PrepareSnapshot`, `Materialise` and
`RecheckSnapshot` for the first phase, `PrepareFrozen`, `PrepareJudge`,
`ExecuteOffline`, `BeginBroker`/`Broker`/`EndBroker`, `FinalizeOutside` and
`FinalizeInside` for the others. `prepared` and `finalized` are the last replies of the
coordinator; a reply may be one made for another review or another call
(`ActionMatches`, `OutputMatches`, `ResultMatches` are the checks that catch it).
`exec[b]` is the broker executor of review `b`; its commands change `runtime`, which
maps the names of networks and containers to the session that owns them. A command may
fail with or without effect, the executor may die at any step. `Edit` changes the
worktree, `CopyFails` is a snapshot that cannot be written, `Rejudge` judges the same
attestations again. A digest is the value it is taken of. That the runtime refuses to
remove a network with a container in it (`InUse`) is an assumption about Podman; without
it two reviews of one packet could take each other's network away.

## 3. Runs

| Run | Instance | Distinct states | Shows |
|---|---|---|---|
| `search_job` | 2 jobs, 1 API thread, `StartWindow` and `Retention` 1, time 0..1, 1 exit and 1 storage error per process, or 1 set-back clock | 624,538 | `TypeOK`, `RowsValid`, `RunsAtMostOnce`, `AckedCancelWins`, `NoLostJob`, `ImplementsLifecycle`, `WorkerDelivers` |
| `search_job_cancel` | 1 job, 1 API thread | | finding: `CancelCompletes` is violated |
| `browser_search` | 2 preparations, 8 commands, 2 image sets, time 0..2, revisions to 12 | 307,909 | `ViewMatchesSearch`, `CancelWins`, `ImageBudget`, `ResultIsKept`, `OnlyConfirmedCalls`, `ViewsAreVersioned`, `CommandsEnd` |
| `browser_search_offers` | 2 preparations | | finding: `OffersHonoured` is violated |
| `usage_ledger` | 1 provider, 2 owners, 2 sessions, 2 amounts, 2 days, 3 reservations | 192,696 | `LimitsHold`, `Restorable`, `StartedStaysCharged` |
| `search_orchestrator` | 2 threads, 2 attempts, 4 charges, 2 approvals, room for 1 consumption | 492,274 | `PaidCallsBounded`, `ChargesClosed`, `ReplacedStayReplaced` |
| `search_orchestrator_stuck` | 2 threads | | finding: `NeverStuck` is violated |
| `production_search` | 2 commands, 2 capabilities, 2 jobs, 2 polls, time 0..2, 1 exit | 101,595 | `OncePerCommand`, `SavedFromCompletedTask`, `HistoriesExplained`, `ChargesClosed`, `RunnerEnds` |
| `search_session` | 3 intents, 2 policies, 2 image sets of 2, 1 comparison, 3 charges, 2 candidates, the clock set back once | 2,620,145 | `ValidatorAgrees`, `SearchedAsApproved`, `CallsSettle` |
| `history_stores` | 2 databases, 2 servers, 2 searches, 2 saves, 1 fault | 187,499 | `ReadsWhole`, `DeletedGone`, `StoreSound`, `ExpiredGone` |
| `product_search` | 33 sentences on 3 routes, 11 of them about prices, responses of up to 3 entries of 1, 3 or 9 kinds, 3 pictures | 109,404 | `PlanFollowsSource`, `RankedFromEvidence`, `HistoryAccepts` |
| `ai_review` | 2 reviews, 3 candidates, 1 fault, 1 edit, 1 tick | 346,081 | `ChainIntact`, `PaidOnce`, `CleanupExact`, `PassIsEarned`, `AlwaysForward` |

Deadlock is checked in `history_stores`, whose requests never run out. The other systems
may rest (the queue is stopped, the browser waits for a user,
a review is over, a bound is reached).

### Bounds

* Jobs do not share anything but the queue and the worker, so two jobs show every
  order of waiting, running and stopping. A start window and a retention of one tick
  put every boundary (`<` against `<=`) inside the clock's range. One exit is enough,
  since `Restart` leaves no unfinished row, and one storage error that costs a job its
  place (`MayFail`), since such a job is touched again only by what any job meets. A
  storage error of a client's `get` or `cancel` is not bounded. An exit may follow a
  storage error in one behaviour. `NamedInOrder` keeps one of the behaviours
  that differ in names only; it does not cut anything else off, which symmetry sets
  would not promise for the liveness properties of these runs.
* Two preparations make a reset and a revision meet leftovers of an earlier one;
  two image sets are the code's own number. `MaxRevision` cuts the revision off
  after both have been exercised to the end. `MaxCommands` and `MaxPreparations`
  are the code's limits, made smaller so that they are reached.
* Three reservations suffice to exceed a limit of two with each scope (owner and
  day, session, day). The quota status "disabled" is modelled and not instantiated.
* `MAX_IMAGE_SET_ATTEMPTS` is the code's 2. Four charges cover both references
  and both sets of comparisons, or two searches beside one of each. One
  consumption and two approvals make the approval ledger run full.
* In `search_session` two ready intents and a blocking one make every replacement
  of an intent possible; two policies make a plan of an older ledger differ from the
  current one; two candidates give a batch in which some entries are rejected. Three
  charges are two image sets and a search, or one set, comparisons and a search.
* In `production_search` the second command has digests that do not match and the two
  capabilities may stand for one command; two polls are one that is answered "pending"
  and the last one.
* In `history_stores` one server reads and purges and the other deletes and purges,
  since two reads do not disturb each other; one database may be a copy of the other.
  The second search has a result that no history may hold. One fault is a database
  that is unreadable for good or one statement that finds a database locked.
* The sentences of `product_search` are chosen so that every reader, every strength
  word, every refusal and every stage of the three routes occurs, and a price in every
  form: a bound, a range in one and in two places, several strengths, and each of
  the three ways in which a price gets lost; three entries are
  enough for a duplicate of a duplicate. `MaxEvidence`, `MaxMatches`, `MaxEvaluated`
  and `MaxClauses` are the code's limits, made smaller so that they are reached.
* In `ai_review` the two reviews may be of the same or of different commits. One
  candidate satisfies the policy in two ways (`good`, `other`), one does not. One fault
  per behaviour, at any command, with or without effect, meets every cleanup path; a
  failing command and, in the same run, a cleanup that fails need two and are not
  instantiated.

### Fairness

`SearchJob!Fairness` is weak fairness of the worker thread's steps and of
`Restart`: the worker loop never stops by itself, every provider call in the
callback has a timeout, and an operator restarts a stopped process.
`BrowserSearch!FairSpec` and `ProductionSearch!Fairness` are weak fairness of the
worker. `HistoryStores!FairSpec` is weak fairness of a server that has begun a request,
and strong fairness of the browser's purge, which its server runs after every request
(`service_actions`), so that it comes although others keep asking. Nothing is assumed of
users, API threads, providers, the storage or the clock. `JobsSettle` therefore excuses a
job whose own enqueue, claim or finish the storage failed, and all jobs once the clock
was set back; `ShutdownCompletes` excuses nothing.
`AlwaysForward` of the AI review is a safety property: every step of a review decreases
the distance to its end, so it ends if it keeps taking steps.

### Findings

1. **A cancellation can remain unfinished** (`CancelCompletes`). The worker reads
   the clock for its finish before the transaction; a cancel that commits a later
   time in between makes the finish fail its time order check, and `_run_one`
   swallows that. The row stays `cancel_requested` until the next start.
2. **A failed browser search offers what it cannot do** (`OffersHonoured`). After
   an exception `canRegenerate` keeps its value although the generator ended; after
   an exception of the rank step a revision is offered and refused.
3. **A regeneration can lock a session** (`NeverStuck`). The ledger is read before
   `_REFERENCE_LOCK`. When an approval of the same review is under way at the read
   and done at the lock, the new review is refused after its paid call and the
   registry stays in `generating`. If the read comes before the approval's
   reservation, the new review misses its cost.

### What the models show besides

These follow from the code and show in the models, without a run of their own.

* *Job queue.* `get()` reads its clock before the transaction, so a status query that
  meets an update made in between is refused although the job exists. A job whose claim
  the storage failed is never run: the row stays queued until a `get` or `cancel` settles
  it, or the next start. One whose finish it failed stays running for as long as the
  process lives, with an idle worker. After an enqueue whose COMMIT failed late the row is
  queued without a place. In all three cases `submit()` returns the existing row of the
  binding and starts nothing.
* *Orchestrator.* A session whose first generation was refused by the limits cannot be
  continued with `skip_images` (the registry has an entry, orchestrator.py:1686), and
  an invalid postal code discards the images before it is refused (orchestrator.py:1680).
* *Session.* A clock set back behind the start of a reservation leaves the charge
  started and, during images, the session in `image_generating`; `CallsSettle` states
  exactly this exception.
* *Histories.* A history that is deleted between the statements of a read answers 503,
  where docs/BACKEND.md:236 has 404 for an identifier that is gone. One database that
  cannot be opened makes every list answer 503. A title of 500 characters, Japanese or
  English, that was cut after a space is refused by the history after the paid retrieval,
  where docs/BACKEND.md:1596 speaks of saving every finished result.
* *After the payment.* A source that names one custom attribute twice, or one registered
  value in two wordings, fails only in `rank()`, after the paid retrieval
  (candidate_search.py:913), and so does a product with more than 32 values of one label;
  docs/BACKEND.md:148 says that contradictions do not start the search, and
  docs/BACKEND.md:1596 has every finished result saved. `HistoryAccepts` names these
  causes and those of the pictures and titles, and shows that there are no others.
* *Planning.* A price is consumed and gives no condition in three ways
  (candidate_queries.py:109, 174): when it is no bound and no range ("5000円"); when prices
  stand in several places that are not a lower bound and then an upper one; and when no
  amount meets the bounds. docs/BACKEND.md:144 makes an unmodified price required. No run
  is spent on this: `PriceFollows` states exactly when a price gets lost (`PriceLost`, said
  from the sentence and not from the reader), and that in every other case there is one
  condition, with the amounts all the prices allow and their strength. "できれば容量300ml以上" is
  refused when the query is built, because a quote must start with its label, although
  docs/BACKEND.md:142 reads a leading "できれば" as preferred.
* *Typed routes.* A prefix "できれば" before a color is read as required; "木なし" becomes
  required as well as excluded; a capability that is not needed may be grounded as
  required; the model's own material terms can add a condition with another strength, and a price
  the model invents is taken when the source has none, or one that gets lost.
  `PlanFollowsSource` therefore says less of these routes: what the older reader knows is
  in the plan, and a condition the model adds is about a clause, with its values or its
  name.
* *Products.* Which duplicate is kept depends on the order of the entries; more than 32
  values of one label fail a ranking; a search with images is refused for no product, for
  more than 32, and for a picture equal to a reference.
* *AI review.* The reservation ledger belongs to one review (external_launcher.py:825), so
  a second review of a candidate pays again. An unusable answer is refused only in the
  sign phase, after both roles were paid. The gateway exits after one connection
  (egress_gateway.py): if it has exited before the inspection after the call, a paid and
  successful call fails. The removal of the broker's container is tried again when the
  command raises, not when it answers with an error. Judging again by hand is possible only
  while exactly the first six phases are committed.

## 4. Theorems

A proof module `XProofs` extends the module `X` (`StoresProofs` the two modules of what
is stored) and proves its theorems for every value of the constants. Each specification
has an inductive invariant, mostly called `IInv`, proved from an initial lemma, a lemma
per action (`...Keeps`, `...Step`) and one that puts these together; the theorems follow
from it. The types of the ledger apart, none of the properties is inductive alone, and
the text below says what had to be added. TLC finds each of these invariants true on the
instance of section 3.

| Module | Theorem | Statement |
|---|---|---|
| `SearchJobProofs` | `TypeCorrectness` | `Spec => []TypeOK` |
| | `RowsAlwaysValid` | `Spec => []RowsValid` |
| | `CallbackRunsAtMostOnce` | `Spec => []RunsAtMostOnce` |
| | `CallbackRowIsActive` | `Spec => []CallbackOwnsActiveRow` |
| | `CancellationIsExact` | `Spec => [](AckedCancelWins /\ NoSpuriousCancel)` |
| | `NoJobIsLost` | `Spec => []NoLostJob` |
| | `FinishedJobsAreFinal` | `Spec => FinalRowsStay` |
| | `Refinement` | `Spec => ImplementsLifecycle` |
| `BrowserSearchProofs` | `ViewTheorem` | `Spec => []ViewMatchesSearch` |
| | `CancelTheorem` | `Spec => []CancelWins` |
| | `BudgetTheorem` | `Spec => []ImageBudget` |
| | `ResultTheorem` | `Spec => []ResultIsKept` |
| | `ConfirmedTheorem` | `Spec => OnlyConfirmedCalls` |
| | `VersionedTheorem` | `Spec => ViewsAreVersioned` |
| `SearchOrchestratorProofs` | `PaidCallsTheorem` | `Spec => []PaidCallsBounded` |
| | `ChargesTheorem` | `Spec => []ChargesClosed` |
| | `ReplacedTheorem` | `Spec => ReplacedStayReplaced` |
| `ProductionSearchProofs` | `OnceTheorem` | `Spec => []OncePerCommand` |
| | `CompletedTaskTheorem` | `Spec => []SavedFromCompletedTask` |
| | `HistoriesTheorem` | `Spec => []HistoriesExplained` |
| | `ChargesTheorem` | `Spec => []ChargesClosed` |
| `StoresProofs` | `StoreTheorem` | `Spec => []StoreSound` |
| | `ReadsTheorem` | `Spec => []ReadsWhole` |
| | `DeletedTheorem` | `SameDatabases` implies `Spec => []DeletedGone` |
| | `LedgerTypes` | `LedgerSpec => []TypeOK` |
| | `StartedTheorem` | `LedgerSpec => StartedStaysCharged` |
| | `LimitsTheorem` | `LedgerSpec => []LimitsHold` |
| | `RestorableTheorem` | `LedgerSpec => []Restorable` |
| `ProductSearchProofs` | `PlanTheorem` | `Spec => []PlanFollowsSource` |
| | `BatchTheorem` | `Spec => [](Normalizing => BatchExact)` |
| | `RankingTheorem` | `Spec => []RankedFromEvidence` |
| | `HistoryTheorem` | `Spec => []HistoryAccepts` |
| `SearchSessionProofs` | `ValidatorTheorem` | `Spec => []ValidatorAgrees` |
| | `ApprovedTheorem` | `Spec => []SearchedAsApproved` |
| | `SettledTheorem` | `Spec => []CallsSettle` |
| `ReviewWorkflowProofs` | `ChainTheorem` | `Spec => []ChainIntact` |
| | `PaidTheorem` | `Spec => []PaidOnce` |
| | `CleanupTheorem` | `Spec => []CleanupExact` |
| | `ForwardTheorem` | `Spec => AlwaysForward` |
| | `EarnedTheorem` | `Spec => []PassIsEarned` |

Assumptions. The constants carry those of their modules, named `...Assumption` there,
and TLC evaluates them on every run. Most only say that a bound is a number. Those with
content are limits the code fixes: a retention or lifetime greater than zero, in
`ProductionSearch` a job retention longer than the lifetime of a plan (30 days in
`search_job.py`, 15 minutes in `production_api.py`), in `SearchSession` and
`SearchOrchestrator` at least one image attempt, in `BrokerEvidence` the three kinds of
answer the judge tells apart. `ProductSearchAssumption` says what a request, an entry and
a picture hold: prices are positive (`PriceValue` in `intent.py`) and
finitely many, as none is above `MAX_PRICE_JPY`; a text has a score for each of the
`MaxClauses` clauses; on the provisional route there is a condition about pictures
(`VisualConditionSet` has at least one). `DeletedTheorem` has a hypothesis, `SameDatabases`: all
servers have the same sequence of databases, as servers that are started from one
configuration have.

### SearchJobProofs

`IInv == CoreInv /\ PendingInv`. `CoreInv` adds what connects the properties:
`IssuedInv` (whatever refers to a job refers to a locator that was handed out),
`ThreadInv` (the worker holds a job in all but its two resting states), `EntryInv`
(a job that is queued or about to begin has not been entered) and `SignalInv` (a set
or pending cancel event of an unfinished job, and the outcome "cancelled", stand for
a committed cancellation).
`PendingInv` is the strengthening for "at most once": a job in the queue or about
to be claimed is untouched and no job waits twice, without which a claim could meet
a row that is already running. The proof has a lemma per repository function (what
it returns for a valid row: `GetJobFacts`, `ClaimJobFacts`, ...) besides the lemma per
action. The refinement has one lemma per action that changes a status.
`NoJobIsLost` needs a second invariant beside it, `PlaceInv`: where in the queue a job
stands relative to `_STOP`, and that no time on record is ahead of a clock that was
never set back (a claim that read an earlier time than the row's is refused, and the
job would stay queued for good). A job in `unstored` is the exception in both halves.
What the theorem says of storage errors is that they cost no job its place but the one
whose own transaction failed, however many there are: `MaxFaults` is any number.

`CallbackOwnsActiveRow`, `NoSpuriousCancel` and `FinalRowsStay` are proved and have no
run of their own.

### BrowserSearchProofs

A search has four positions: that of the view, the worker, the generator and the flow.
`IInv` says what each pair may look like: `WaitInv` (the run's stage is that of the yield
the generator waits at), `FlowInv` (the flow is in a state this yield can be reached in,
and a pending history only at the yield for it, so that no failure hides one), `ViewInv`
and `CommitInv` (the view shows the yield, or the one about to be committed), `PhaseInv`
(the states of the flow inside `_run`). `PendingInv` says a queued command fits where the
generator waits, and needs the counters of preparations on both sides. `CancelInv` is what
makes `CancelWins` inductive: a view that offers "cancel" is one whose worker is in a
phase before the ranking, or about to commit a failure. `SetsInv` counts begun image sets
against charged attempts for `ImageBudget`.

### SearchOrchestratorProofs

`IInv` rests on two ideas. The registry is a lock (`LockInv`): at most one thread is
between the lock sections of a generation or derivation, and while one is, no other call
gets in, also after a discard overwrote its mark. And nothing is charged beyond the
current reference (`AttemptInv`), said from the registry when it is open and from the
thread that holds it when not. `PaidInv` is then the count of references and
derivations, `TokenInv` that a token is claimed before its call, `StartedInv` that each
open charge has a thread that will close it. The bound on the number of references is
proved as an injection into the attempt numbers (`FiniteSetTheorems`), not by counting.

### ProductionSearchProofs

`OncePerCommand` needs the whole chain from a command to its task. `BindingInv`: a job is
bound once. `AgeInv`: a row outlives the plan of its command, so when a row is purged its
command can no longer be posted; this is where `JobRetention > PlanLifetime` is used.
`TaskInv`: a command has no task at the provider until its job reaches the call.
`DownInv`, `RunInv` and `ResultInv` say what an exit leaves, that the runner's job is
active, and that it ranks only a finished task. `ChargesClosed` is inductive with `RunInv`.

### StoresProofs: histories

`RowsInv` (completion keys and locators are unique, a locator identifies a row across
databases) and `ImagesInv` (the images of a database are exactly those of its rows) give
`StoreSound`. `ReadInv` follows a request between its statements: every row it has seen
was once saved under its locator, so a body found later can only be this row's, although
the row may be gone. `GoneInv` does the same for a deletion: it has been through the
databases before the one it is at, and the locators it removed are below `fresh`.

### StoresProofs: the usage ledger

`TypeOK` is inductive alone; `StepFacts` says of every method which entries it may
change. The limits need facts about sums over sets of reservations. A sum of natural
numbers is a number of units, the pairs of a reservation and a number below its amount
(`Units`); this gives a solution of the loop's equation (`SumsUpExists`), and every
solution is this one (`SumsUpCounts`), by the minimal subset on which they would differ
(`SmallestSubset`, from the library's theorem that the subsets of a finite set are
well-founded). So `_scope_total` counts units (`TotalCounts`), and that a larger scope has
the larger total (`TotalGrows`) and a reservation more adds its amount (`TotalOfMore`) are
facts about cardinalities. `ScopesWithin`, which speaks of the scopes `reserve` totals, is
inductive with `TypeOK`: `start`, `finish` and `release` bring nothing into a scope, as a
released reservation stays released (`UpdateWithin`), and a new one is in exactly the
scopes whose totals `_would_exceed` compared (`ReserveWithin`), for whatever times the
calls carry. `LimitsHold` and `Restorable` follow.

### SearchSessionProofs

The bulk of the proof shows that each transition of a valid snapshot gives a snapshot
`ValidSnapshot` takes, with `ImagesInv` (the images and the active set of a session are
paid for by their reservations), `CallInv` (a call under way has its started reservation
and the state it came from), `ApprovedInv` (the grant of a running search is for the plan
the session has) and `SettledInv` (a clock that was never set back is behind nothing on
record; otherwise `finish` is refused and a reservation stays open).

### ReviewWorkflowProofs

The invariant, here `ChainInv`, has a half for the executors and one for the drivers.
`BatchInv` says of a batch what a command may rely on: its flags are those of the role
that runs (`Flags`), a resource under its session label is one the run at hand will
still remove or one whose removal failed (`Owns`), whoever calls has its own boundary
(`Holds`), and each row and call is about its packet and in order (`LedgerInv`,
`CallsInv`). The names of two reviews of one packet are the same, so none of this is
inductive for one batch alone: `Attached` adds that a broker container is on the
internal network of its own session, which is why `rm -f` by name meets no stranger's
container (podman refuses to remove a network in use).
`DriverInv` says that the committed results are the phases before the request, about the
candidate of the first one (`Chained`), with the anchors the phases set. As a reply may
be any that was made before, `PreparedInv` and `FinalizedInv` say what those are: of
their own review, and of an earlier phase than the one that is waited for, so that only
the reply to the call just made is taken. `ExecutorInv` joins the halves.
`AlwaysForward` follows by cases: a driver's step commits a phase or goes to a later
place (`DriverMoves`), an executor's goes to a later role, stage, target or removes
its container (`ExecutorMoves`), and every number of `Rank` stays within its base.
`PassIsEarned` is inductive with two facts (`EarnedInv`): a verdict that is no failure has
spent the nonces of its review, so the next one of that review fails, and was given over
six committed phases. What a pass asks of them stays true because no step takes back a
committed phase or a call (`AllKept`), and is true when it is given because each part of
it is checked by `BundleSound` or `AttestationsHold`, or follows from `ChainInv` (the
calls, which the coordinator never sees). That an answer is one of the three the judge
tells apart is `DecisionsAssumption`.

### ProductSearchProofs

`Known`, which is inductive, has one part per stage of a search and the last property.
`Spec => []PlanFollowsSource` is about both kinds of routes, and says less of the typed
ones (see "What the models show besides").

* `PlanInv`: the plan is that of a request, and from the moment it is made it says what
  the sentence says. The lemmas go reader by reader: what a clause that was read leaves in
  the plan (`NaturalFact`, `LegacyReads`, `QueryFact`), and that a clause no reader took
  is what `Leftover` holds (`BuiltCovers`), so `Build` refuses. A reply is taken only if
  every claim in it is in the sentence (`ClaimInSentence`) and nothing is missing
  (`ReplyCovers`). The reader of prices folds over positions; what it gives for one place,
  two and more (`OnePrice`, `TwoPrices`, `OtherPrices`) shows that it reads a price exactly
  when the property says the price does not get lost, as the amounts all of them allow
  (`PriceRead`, `BuiltPrices`). `PlanFollowsSource` follows.
* `BatchInv`: the batch is `Normalize` of the response. `normalize_outscraper_products` is
  a fold over the entries, here the community modules' `FoldLeft`. It is the loop it looks
  like (`NormalizeLoops`): its recursion over sets of indices has a solution
  (`TurnsExist`, by the smallest set without one), so it can be read turn by turn. The
  loop's invariant (`LoopInv`) says which entries are kept, where the others went and that
  each ASIN and URL on record is that of a kept entry; the rule for a single entry
  (`KeptOf`) mentions no loop.
* `ConditionsInv`: the conditions of a plan are finite, have an id each and are about
  clauses for which there is a score, so that `ById` finds the right one and sums of
  weights exist (`SumsAgree`, `SumAdds`).
* `ReviewInv`: while there is a review it asks about the conditions of the plan, and what
  was confirmed in it are labels it offers, for quantities only (`ReviewHolds`,
  `SelectionHolds`). So the labels the contract reads from the review are those the
  ranking took from the plan (`LabelsAgree`).
* `RankInv`: the ranked rows stand for the products, one each (`Ranking`); those that say
  "confirmed" are about products that show it (`ConfirmedConfirms`, through
  `Adjudicated` and `Decided`); outside the candidate route the confirmed ones come first
  (`ConfirmedFirst`); and until the search completes the rows are the ones the contracts
  compute again (`Made`). Sorting is proved once: keys of integers that end in different
  numbers are totally ordered (`KeysOrdered`), so every place is taken once (`Places`)
  and the sorted rows are the given ones in the order of their keys (`SortedPermutes`).
  What is left is that each key is a tuple of integers that ends in the index
  (`CandidateKeyFits`, `TypedRowFits`, `PriorityKeyFits`).
* `HistoryAccepts`: each contract computes again what the ranking computed
  (`CandidateRanked`, `ImageFreeRanked`, `PictureRanked`, `ResultCounts`). Where it can
  refuse, the reason is one the property names (`NotReady`, `EvidenceBound`,
  `EvaluationBound`).

Three things in the model were corrected for these proofs, because the formula did not
hold for all constants. The id of a condition has its kind and its values, as two claims
about one clause may differ in these alone. A claim about a registered value is tied to a
place where its word stands. And "speaks of one attribute twice" covers every clause with
a word of avoidance, which becomes a condition whatever it is about.

### What is only model-checked

* Liveness and `ENABLED`: `WorkerDelivers`, `CommandsEnd`, `RunnerEnds`, `ExpiredGone`.
  Every invariant and every action property of the passing runs is a theorem.
* `CandidateFlow` has no run or theorem of its own: it is checked through `BrowserSearch`.

## 5. What is not modelled

* HTTP framing, sockets, child processes, image and language models, scraping:
  I/O and numeric kernels. They appear as calls that answer or fail.
* The content of contracts: texts, digests and prompts. Digests are taken to match,
  or stand for the value they are taken of.
* The counterfactual approvals' database: `CandidateFlow` uses issue and consume.
* The intent stage of the orchestrator and the legacy four-view image set; the
  browser-driven search client; the in-process broker session of
  `broker_egress_provisioner.py`, which only tests call; the deployment checks and
  launchers of the AI review.
* The attribute part of ranking-v3, the holdout evaluation, the lexical resources.
* The legacy command line and the frontend: see the notes in `PROJECT.json`.

## 6. Plan

Done: models of the queue with its life cycle; the browser search; the usage ledger;
the orchestrator; the session; the production search; the history stores; planning,
normalisation and ranking; the AI review; and the theorems of section 4.

Next:

1. `ProductionSearch` as a composition with `SearchJob` itself instead of with its
   abstract life cycle, for one job.
2. The counterfactual approvals' database, and `CandidateFlow`'s save as an instance of
   `HistoryStores`.
3. The launchers of the AI review.
4. More theorems: that the transitions of `SearchOrchestrator`'s charges are those
   `UsageLedger` allows.
