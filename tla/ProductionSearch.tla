--------------------------- MODULE ProductionSearch ---------------------------
(***************************************************************************)
(* The production search behind the local HTTP API: the submission store   *)
(* of production_api.py (capabilities for approved commands), the service  *)
(* and job callback of production_search.py, and the Outscraper client of  *)
(* outscraper_http.py that creates one provider task and polls it.         *)
(*                                                                         *)
(* The job queue appears as JobLifecycle promises it (SearchJob implements *)
(* that module): a status per job, one callback at a time, recovery on     *)
(* restart.  The submission store, both ledgers and the commands live in   *)
(* memory and are lost when the process ends; jobs, provider tasks and the *)
(* saved histories are not.                                                *)
(***************************************************************************)
EXTENDS Integers, FiniteSets

CONSTANTS
    Commands,        \* ProductionSearchCommand values (their binding digests)
    Unbound,         \* commands whose digests do not match one another
    Capabilities,    \* tokens the submission store may hand out
    Jobs,            \* job locators
    MaxPolls,        \* OUTSCRAPER_MAX_POLLS
    MaxLifetime,     \* _MAX_SUBMISSION_LIFETIME
    PlanLifetime,    \* how long the approval plan of a command is valid
    JobRetention,    \* JOB_RETENTION
    MaxTime,         \* bound: the clock stops here
    MaxExits,        \* bound: process exits
    Delays           \* bound: the lifetimes register() is called with

\* The code's constants are 15 minutes, 15 minutes and 30 days.
ASSUME ProductionAssumption ==
    /\ Unbound \subseteq Commands
    /\ MaxPolls \in Nat \ {0} /\ MaxLifetime \in Nat \ {0}
    /\ PlanLifetime \in Nat \ {0}
    /\ JobRetention \in Nat /\ JobRetention > PlanLifetime
    /\ MaxTime \in Nat /\ MaxExits \in Nat
    /\ Delays \subseteq 1..MaxLifetime

VARIABLES
    clock,     \* what now() returns
    up,        \* the process is running
    approved,  \* commands: the time of approval, Never, or Lost with its process
    entries,   \* _entries of the submission store
    post,      \* the submit() call that holds the store's lock
    status,    \* job statuses, as JobLifecycle names them
    binding,   \* the command a job was submitted for
    finished,  \* finished_at of a finished job
    flagged,   \* jobs whose cancel event is set
    runner,    \* the job callback
    consumed,  \* search approvals in the in-memory approval ledger
    charge,    \* usage reservation of a job
    task,      \* the provider's task of a job
    saved,     \* jobs whose history was saved
    tasks,     \* history: provider tasks created per command
    issued,    \* history: capabilities handed out
    acked,     \* history: jobs whose cancellation was accepted
    stopped,   \* history: jobs whose end was not written to their row
    exits      \* process exits so far

vars == <<clock, up, approved, entries, post, status, binding, finished,
          flagged, runner, consumed, charge, task, saved, tasks, issued,
          acked, stopped, exits>>

store  == <<entries, post, issued>>
jobs   == <<status, binding, finished, flagged>>
ledger == <<consumed, charge>>
world  == <<task, tasks, saved>>
notes  == <<acked, stopped, exits>>

Never   == -1
Lost    == -2
NoEntry == [job |-> "none"]
NoJob   == "none"

\* The absence of a job or a command is no job and no command.
ASSUME NamesAssumption == NoJob \notin Jobs \cup Commands

At(pc, j, polls, outcome) == [pc |-> pc, job |-> j, polls |-> polls, outcome |-> outcome]
Idle    == At("idle", NoJob, 0, "none")
NoPost  == [capability |-> "none", job |-> NoJob]
Final   == {"succeeded", "failed", "cancelled", "timed_out"}
Unfinished == {"queued", "running", "cancel_requested"}

Entry(c, expires, j) == [job |-> j, command |-> c, expires_at |-> expires]

Init ==
    /\ clock = 0 /\ up = TRUE
    /\ approved = [c \in Commands |-> Never]
    /\ entries = [k \in Capabilities |-> NoEntry]
    /\ post = NoPost
    /\ status = [j \in Jobs |-> "fresh"]
    /\ binding = [j \in Jobs |-> NoJob]
    /\ finished = [j \in Jobs |-> Never]
    /\ flagged = {} /\ runner = Idle
    /\ consumed = {} /\ charge = [j \in Jobs |-> "none"]
    /\ task = [j \in Jobs |-> "none"] /\ saved = {}
    /\ tasks = [c \in Commands |-> 0]
    /\ issued = {}
    /\ acked = {} /\ stopped = {} /\ exits = 0

-----------------------------------------------------------------------------
(* The submission store *)

\* A command is built once from one approved search, its conditions and its
\* approved references; the plan's time runs from the approval.
Approve(c) ==
    /\ up /\ approved[c] = Never
    /\ approved' = [approved EXCEPT ![c] = clock]
    /\ UNCHANGED <<clock, up, runner, store, jobs, ledger, world, notes>>

\* Every call of the store first deletes the entries that have expired.
Live(now) ==
    [k \in Capabilities |->
        IF entries[k] # NoEntry /\ entries[k].expires_at <= now THEN NoEntry
        ELSE entries[k]]

\* register(): any number of capabilities may stand for one command.  Tokens
\* are random, so none is handed out twice.
Register(c, k, lifetime) ==
    /\ up /\ post = NoPost /\ approved[c] \notin {Never, Lost}
    /\ k \notin issued
    /\ lifetime \in Delays
    /\ entries' = [Live(clock) EXCEPT ![k] = Entry(c, clock + lifetime, NoJob)]
    /\ issued' = issued \cup {k}
    /\ UNCHANGED <<clock, up, approved, post, runner, jobs, ledger,
                   world, notes>>

\* _validated_command and the expiry test of ProvisionalProductionSearchService.submit
Acceptable(c) ==
    /\ c \notin Unbound
    /\ clock < approved[c] + PlanLifetime

\* LocalSearchJobExecutor.submit: one row per binding as long as it is kept.
SameBinding(c) ==
    {j \in Jobs : status[j] \notin {"fresh", "gone"} /\ binding[j] = c}

Existing(c) == SameBinding(c)

\* submit() under the store's lock, up to the answer of the job queue.  An
\* entry that is gone (404) or whose command is refused (409) is left alone,
\* one with a job is answered from the queue.
Post(k) ==
    /\ up /\ post = NoPost
    /\ entries[k] # NoEntry
    /\ entries' = Live(clock)
    /\ LET entry == entries'[k]
       IN \/ /\ entry # NoEntry /\ entry.job = NoJob /\ Acceptable(entry.command)
             /\ \E j \in IF Existing(entry.command) # {}
                         THEN Existing(entry.command)
                         ELSE {i \in Jobs : status[i] = "fresh"} :
                  /\ status' = [status EXCEPT ![j] =
                                  IF @ = "fresh" THEN "queued" ELSE @]
                  /\ binding' = [binding EXCEPT ![j] = entry.command]
                  /\ post' = [capability |-> k, job |-> j]
          \/ /\ entry # NoEntry /\ entry.job = NoJob
                   => ~Acceptable(entry.command)
             /\ UNCHANGED <<status, binding, post>>
    /\ UNCHANGED <<clock, up, approved, issued, finished, flagged, runner,
                   ledger, world, notes>>

\* The snapshot is validated and the job recorded in the entry; the lock is
\* released and the caller answered.
PostRecorded ==
    /\ up /\ post # NoPost
    /\ entries' = [entries EXCEPT ![post.capability] =
                     Entry(NoJob, @.expires_at, post.job)]
    /\ post' = NoPost
    /\ UNCHANGED <<clock, up, approved, issued, runner, jobs, ledger, world,
                   notes>>

\* An exception between the job queue's answer and the assignment: the lock
\* is released, the entry still holds its command and the caller gets a 500.
PostRaised ==
    /\ up /\ post # NoPost
    /\ post' = NoPost
    /\ UNCHANGED <<clock, up, approved, entries, issued, runner, jobs,
                   ledger, world, notes>>

-----------------------------------------------------------------------------
(* The job queue, seen through JobLifecycle *)

\* cancel_job: get, then cancel if the status allows it; the event of a
\* running job is set after its row has changed.
CancelJob(j) ==
    /\ up /\ status[j] \in {"queued", "running"}
    /\ status' = [status EXCEPT ![j] = IF @ = "queued" THEN "cancelled"
                                       ELSE "cancel_requested"]
    /\ finished' = [finished EXCEPT ![j] = IF status[j] = "queued" THEN clock ELSE @]
    /\ acked' = acked \cup {j}
    /\ UNCHANGED <<clock, up, approved, store, binding, flagged, runner,
                   ledger, world, stopped, exits>>

SignalCancel(j) ==
    /\ up /\ j \in acked \ flagged /\ runner.job = j
    /\ flagged' = flagged \cup {j}
    /\ UNCHANGED <<clock, up, approved, store, status, binding, finished,
                   runner, ledger, world, notes>>

ExpireQueued(j) ==
    /\ up /\ status[j] = "queued" /\ clock > 0
    /\ status' = [status EXCEPT ![j] = "timed_out"]
    /\ finished' = [finished EXCEPT ![j] = clock]
    /\ UNCHANGED <<clock, up, approved, store, binding, flagged, runner,
                   ledger, world, notes>>

\* purge_expired of the job repository
ForgetJob(j) ==
    /\ up /\ status[j] \in Final /\ clock >= finished[j] + JobRetention
    /\ status' = [status EXCEPT ![j] = "gone"]
    /\ UNCHANGED <<clock, up, approved, store, binding, finished, flagged,
                   runner, ledger, world, notes>>

StartJob(j) ==
    /\ up /\ runner = Idle /\ status[j] = "queued"
    /\ status' = [status EXCEPT ![j] = "running"]
    /\ runner' = At("key", j, 0, "none")
    /\ UNCHANGED <<clock, up, approved, store, binding, finished, flagged,
                   ledger, world, notes>>


-----------------------------------------------------------------------------
(* The job callback: run() of the production service, one step per call    *)
(* that another thread or the provider can be interleaved with             *)

J == runner.job
Goto(pc)   == runner' = [runner EXCEPT !.pc = pc]
Raise(how) == runner' = [runner EXCEPT !.pc = "end", !.outcome = how]

\* SearchJobControl.checkpoint
Cancelled == J \in flagged

\* Every step of the callback leaves these alone.
RunnerFrame == UNCHANGED <<clock, up, approved, store, binding, flagged, acked,
                           stopped, exits>>

\* The checkpoint of the job queue and the first one of run(), then the key.
LoadKey ==
    /\ up /\ runner.pc = "key"
    /\ \/ Cancelled /\ Raise("cancelled")
       \/ ~Cancelled /\ Goto("authorize")
       \/ ~Cancelled /\ Raise("error")
    /\ RunnerFrame /\ UNCHANGED <<status, finished, ledger, world>>

\* _authorize_approved_search: a consumed or an expired approval is refused
\* before anything is reserved; otherwise the call is reserved, started and
\* the approval consumed.
Authorize ==
    /\ up /\ runner.pc = "authorize"
    /\ LET c == binding[J]
       IN \/ /\ c \in consumed \/ clock >= approved[c] + PlanLifetime
             /\ Raise("error")
             /\ UNCHANGED ledger
          \/ /\ c \notin consumed /\ clock < approved[c] + PlanLifetime
             /\ consumed' = consumed \cup {c}
             /\ charge' = [charge EXCEPT ![J] = "started"]
             /\ Goto("create")
    /\ RunnerFrame /\ UNCHANGED <<status, finished, world>>

\* What a reply can say, as far as the client tells replies apart.
Replies == [code : {200, 202, 204, 302, 500}, json : {"good", "bad"},
            id : {"own", "other"}, state : {"pending", "success", "failure", "odd"},
            data : {"none", "fits", "over"}, location : {"own", "other"}]

\* Replies that agree with the provider's task: only a finished task is
\* reported as a success.
Truthful(t) == {r \in Replies : r.state = "success" => t = "done"}

\* _response_body and _response_payload
Readable(r) == r.code \in {200, 202} /\ r.json = "good"

\* _provider_request_id: a poll is answered for the task that was created.
OwnTask(r) == r.id = "own"

\* _task_status: a pending task has no data; failure and anything else raise.
TaskStatus(r) ==
    CASE r.state = "pending" /\ r.data = "none" -> "pending"
      [] r.state = "success" -> "success"
      [] OTHER -> "error"

\* _completed_data: at most maximum_candidates entries
DataFits(r) == r.data = "fits"

\* _validated_results_location: polls go to the endpoint's own host and path
LocationBound(r) == r.location = "own"

\* What _execute_task makes of one reply.
Outcome(r) ==
    CASE ~Readable(r) \/ ~OwnTask(r) -> "error"
      [] TaskStatus(r) = "success" /\ ~DataFits(r) -> "error"
      [] OTHER -> TaskStatus(r)

Outcomes(t) == {Outcome(r) : r \in Truthful(t)}
FirstOutcomes(t) ==
    {IF Outcome(r) = "pending" /\ ~LocationBound(r) THEN "error" ELSE Outcome(r) :
        r \in Truthful(t)}

\* execute_outscraper_request closes the charge on every way out.
FinishUsage(how) == charge' = [charge EXCEPT ![J] = how]

Succeed == FinishUsage("succeeded") /\ Goto("rank")
Fail    == FinishUsage("failed") /\ Raise("error")

\* _validated_execution_context: the permit's reservation is started, and it
\* is the one the ledger holds.
PermitCurrent == binding[J] \in consumed /\ charge[J] = "started"

\* The one request that creates the task.  It may fail before it reaches the
\* provider, and the reply may be lost after the task exists.
CreateTask ==
    /\ up /\ runner.pc = "create" /\ PermitCurrent
    /\ \/ Fail /\ UNCHANGED <<task, tasks>>
       \/ \E t \in {"pending", "done", "failed"} :
            /\ task' = [task EXCEPT ![J] = t]
            /\ tasks' = [tasks EXCEPT ![binding[J]] = @ + 1]
            /\ \/ Fail
               \/ "success" \in FirstOutcomes(t) /\ Succeed
               \/ /\ "pending" \in FirstOutcomes(t)
                  /\ Goto("poll") /\ UNCHANGED charge
    /\ RunnerFrame /\ UNCHANGED <<status, finished, consumed, saved>>

PollsLeftForever(polls) == TRUE                                  \* mutant
PollsLeft(polls) == polls < MaxPolls

GiveUpAsSuccess == Succeed                                       \* mutant
GiveUpUncharged == Raise("error") /\ UNCHANGED charge            \* mutant
GiveUpAgain == Goto("create") /\ UNCHANGED charge                \* mutant
GiveUp == Fail

\* One poll and, unless it was the last, the sleep after it.
Poll ==
    /\ up /\ runner.pc = "poll"
    /\ \/ "success" \in Outcomes(task[J]) /\ Succeed
       \/ Fail
       \/ /\ PollsLeft(runner.polls + 1)
          /\ runner' = [runner EXCEPT !.polls = (@ % MaxPolls) + 1]
          /\ UNCHANGED charge
       \/ ~PollsLeft(runner.polls + 1) /\ GiveUp
    /\ RunnerFrame /\ UNCHANGED <<status, finished, consumed, world>>

\* The second checkpoint, run_provisional_search (which may refuse the
\* response) and the third checkpoint.
Rank ==
    /\ up /\ runner.pc = "rank"
    /\ \/ Cancelled /\ Raise("cancelled")
       \/ ~Cancelled /\ Goto("ranked")
       \/ ~Cancelled /\ Raise("error")
    /\ RunnerFrame /\ UNCHANGED <<status, finished, ledger, world>>

Ranked ==
    /\ up /\ runner.pc = "ranked"
    /\ \/ Cancelled /\ Raise("cancelled")
       \/ ~Cancelled /\ Goto("save")
    /\ RunnerFrame /\ UNCHANGED <<status, finished, ledger, world>>

SaveRefusedIgnored == Raise("result")                            \* mutant
SaveRefused == Raise("error")

ThenResult == Raise("result")

\* The snapshot is built and saved; a save that fails leaves nothing behind.
SaveHistory ==
    /\ up /\ runner.pc = "save"
    /\ \/ saved' = saved \cup {J} /\ ThenResult
       \/ SaveRefused /\ UNCHANGED saved
    /\ RunnerFrame /\ UNCHANGED <<status, finished, ledger, task, tasks>>

\* _run_one: the row decides between a result and a cancellation that was
\* accepted meanwhile.  A storage error of the queue is swallowed and leaves
\* the row as it is.
Finished(row, outcome) ==
    CASE row = "cancel_requested" -> "cancelled"
      [] outcome = "result" -> "succeeded"
      [] OTHER -> "failed"

EndRun ==
    /\ up /\ runner.pc = "end"
    /\ \/ /\ status' = [status EXCEPT ![J] = Finished(@, runner.outcome)]
          /\ finished' = [finished EXCEPT ![J] = clock]
          /\ UNCHANGED stopped
       \/ /\ stopped' = stopped \cup {J}
          /\ UNCHANGED <<status, finished>>
    /\ runner' = Idle
    /\ flagged' = flagged \ {J}
    /\ UNCHANGED <<clock, up, approved, store, binding, ledger, world, acked,
                   exits>>

-----------------------------------------------------------------------------
(* The provider, the clock and the process *)

ProviderCompletes(j) ==
    /\ task[j] = "pending"
    /\ \E t \in {"done", "failed"} : task' = [task EXCEPT ![j] = t]
    /\ UNCHANGED <<clock, up, approved, store, jobs, runner, ledger, tasks,
                   saved, notes>>

Tick ==
    /\ clock < MaxTime /\ clock' = clock + 1
    /\ UNCHANGED <<up, approved, store, jobs, runner, ledger, world, notes>>

\* Everything the process keeps in memory is gone.
Exit ==
    /\ up /\ exits < MaxExits
    /\ up' = FALSE /\ exits' = exits + 1
    /\ approved' = [c \in Commands |-> IF approved[c] = Never THEN Never ELSE Lost]
    /\ entries' = [k \in Capabilities |-> NoEntry] /\ post' = NoPost
    /\ stopped' = IF runner = Idle THEN stopped ELSE stopped \cup {J}
    /\ runner' = Idle /\ flagged' = {}
    /\ consumed' = {} /\ charge' = [j \in Jobs |-> "none"]
    /\ UNCHANGED <<clock, issued, status, binding, finished, world, acked>>

\* recover_interrupted settles every unfinished job before the worker starts.
Recovered(s) == CASE s \in {"queued", "running"} -> "failed"
                  [] s = "cancel_requested" -> "cancelled"
                  [] OTHER -> s

Restart ==
    /\ ~up /\ up' = TRUE
    /\ status' = [j \in Jobs |-> Recovered(status[j])]
    /\ finished' = [j \in Jobs |-> IF status[j] \in Unfinished THEN clock ELSE finished[j]]
    /\ UNCHANGED <<clock, approved, store, binding, flagged, runner, ledger,
                   world, notes>>

RunnerStep == LoadKey \/ Authorize \/ CreateTask \/ Poll \/ Rank \/ Ranked
                  \/ SaveHistory \/ EndRun

Next ==
    \/ \E c \in Commands : Approve(c)
    \/ \E c \in Commands, k \in Capabilities, d \in Delays : Register(c, k, d)
    \/ \E k \in Capabilities : Post(k)
    \/ PostRecorded \/ PostRaised
    \/ \E j \in Jobs : CancelJob(j) \/ SignalCancel(j) \/ ExpireQueued(j)
                          \/ ForgetJob(j) \/ StartJob(j) \/ ProviderCompletes(j)
    \/ RunnerStep \/ Tick \/ Exit \/ Restart

Spec == Init /\ [][Next]_vars

\* The worker thread runs on: a call to the provider has a timeout, a sleep
\* a fixed length, and the worker is a thread of its own.
Fairness == WF_vars(RunnerStep)

FairSpec == Spec /\ Fairness

-----------------------------------------------------------------------------
(* Properties *)

\* Every variable holds a value of its kind; a callback polls at most
\* OUTSCRAPER_MAX_POLLS times.
TypeOK ==
    /\ clock \in 0..MaxTime /\ up \in BOOLEAN /\ exits \in 0..MaxExits
    /\ approved \in [Commands -> 0..MaxTime \cup {Never, Lost}]
    /\ \A k \in Capabilities :
          entries[k] = NoEntry \/ entries[k].expires_at \in 1..(MaxTime + MaxLifetime)
    /\ status \in [Jobs -> {"fresh", "gone"} \cup Unfinished \cup Final]
    /\ flagged \subseteq Jobs /\ saved \subseteq Jobs /\ consumed \subseteq Commands
    /\ charge \in [Jobs -> {"none", "started", "succeeded", "failed"}]
    /\ runner.polls \in 0..(MaxPolls - 1)

\* However often a command is registered and posted, and even if a POST
\* failed after its job was accepted, the queue holds at most one job for it
\* (submit of production_api.py relies on the binding of production_search.py).
OneJobPerCommand ==
    \A i, j \in Jobs : binding[i] # NoJob /\ binding[i] = binding[j] => i = j

\* An approved command buys at most one provider task, through time-outs,
\* lost replies, repeated posts and restarts (outscraper_http.py never
\* repeats the creating request).
OneTaskPerCommand == \A c \in Commands : tasks[c] <= 1

\* One approved command, one job and one paid task.
OncePerCommand == TypeOK /\ OneJobPerCommand /\ OneTaskPerCommand

\* A history is saved only from a task the provider finished: giving up
\* after the last poll, or on a bad reply, never becomes a result.
SavedFromCompletedTask == \A j \in saved : task[j] = "done"

\* A job reported as succeeded has its history.
SucceededHasHistory == \A j \in Jobs : status[j] = "succeeded" => j \in saved

\* A history whose job did not succeed has one of three causes: the user's
\* accepted cancellation, the end of the process before the row was
\* written, or a queue that could not write it (the row is then still
\* running, and failed after the next restart).
OrphanExplained ==
    \A j \in saved :
        \/ status[j] \in {"running", "succeeded", "gone"}
        \/ j \in acked \/ j \in stopped

\* Jobs and histories agree, or the difference has a known cause.
HistoriesExplained == SucceededHasHistory /\ OrphanExplained

\* No charge stays open when the callback that opened it is over: every way
\* out of execute_outscraper_request finishes the reservation.
ChargesClosed ==
    \A j \in Jobs : charge[j] = "started" => runner.job = j /\ runner.pc \in {"create", "poll"}

\* A callback comes to its end: the polls are bounded, and a provider that
\* answers "pending" for ever cannot hold the only worker.
RunnerEnds == (runner # Idle) ~> (runner = Idle)
=============================================================================
