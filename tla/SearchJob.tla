------------------------------ MODULE SearchJob ------------------------------
(***************************************************************************)
(* The local search job queue of src/search_v2/search_job.py: the SQLite   *)
(* job repository and the in-process executor that runs one job at a time. *)
(*                                                                         *)
(* Every repository method is one BEGIN IMMEDIATE transaction, so each is  *)
(* one atomic step here.  What is not atomic is modelled as several steps: *)
(* the executor reads its clock BEFORE it opens the transaction, cancel()  *)
(* sets the in-memory event AFTER its transaction has committed, and the   *)
(* worker thread interleaves with every API thread ("client").             *)
(*                                                                         *)
(* Rows keep only what the transitions read: the owner is always the fixed *)
(* local user, start_before and purge_after are the functions of           *)
(* created_at and finished_at that the code always writes, and a result    *)
(* locator is present or absent.  Any transaction may raise a storage      *)
(* error: a locked or full database, or an OSError.                        *)
(***************************************************************************)
EXTENDS Integers, Sequences, FiniteSets

CONSTANTS
    Locators,      \* public job locators the repository may hand out
    Bindings,      \* approval runtime binding digests
    Clients,       \* API threads
    Stop,          \* the executor's _STOP queue item
    StartWindow,   \* JOB_QUEUE_START_WINDOW
    Retention,     \* JOB_RETENTION
    MaxTime,       \* bound: the clock stops here
    MaxFaults      \* bound: process exits and clock regressions together,
                   \* and jobs lost to the storage and clock regressions

ASSUME SearchJobAssumption ==
    /\ Stop \notin Locators
    /\ StartWindow \in Nat \ {0}
    /\ Retention \in Nat \ {0}
    /\ MaxTime \in Nat /\ MaxFaults \in Nat

VARIABLES
    rows,       \* the search_jobs table, by locator
    issued,     \* locators handed out so far (token_urlsafe never repeats)
    clock,      \* what self._clock() returns
    up,         \* the process is running
    accepting,  \* _accepting
    queue,      \* _queue
    events,     \* locators registered in _cancel_events
    flagged,    \* locators whose cancel event is set
    worker,     \* the worker thread
    clients,    \* the API threads
    acked,      \* history: locators whose cancellation was acknowledged
    starts,     \* history: how often the callback of a locator was entered
    unstored,   \* history: locators whose enqueue, claim or finish raised a
                \* storage error since the process started
    exits,      \* process exits so far
    regressed   \* clock regressions so far

vars == <<rows, issued, clock, up, accepting, queue, events, flagged, worker,
          clients, acked, starts, unstored, exits, regressed>>

-----------------------------------------------------------------------------
(* Job rows *)

Terminal == {"succeeded", "failed", "cancelled", "timed_out"}
Active   == {"queued", "running", "cancel_requested"}
Statuses == Active \cup Terminal
Outcomes == {"success", "failure", "cancelled"}
None     == -1                                 \* a NULL timestamp
Times    == Nat \cup {None}
Results  == {"none", "saved"}                  \* NULL or a result locator
Failures == {"none", "execution_failed", "queue_start_expired",
             "worker_restarted"}
NoRow    == [status |-> "absent"]

Rows == [binding : Bindings, status : Statuses, revision : Nat,
         created_at : Nat, updated_at : Nat, started_at : Times,
         cancel_requested_at : Times, finished_at : Times,
         result_locator : Results, failure_code : Failures]

StartBefore(job) == job.created_at + StartWindow

PurgeDue(job, now) ==
    job.status \in Terminal /\ now >= job.finished_at + Retention

\* SearchJobSnapshot.validate_state: every read and every write of a row
\* re-validates it, and a rejection is a storage error.
ValidTimes(job) ==
    /\ job.updated_at >= job.created_at
    /\ job.started_at # None =>
         job.created_at <= job.started_at /\ job.started_at < StartBefore(job)
    /\ job.cancel_requested_at # None =>
         job.cancel_requested_at >= IF job.started_at # None
                                    THEN job.started_at ELSE job.created_at
    /\ job.finished_at # None =>
         job.finished_at >= IF job.cancel_requested_at # None
                            THEN job.cancel_requested_at
                            ELSE IF job.started_at # None
                                 THEN job.started_at ELSE job.created_at

ValidActive(job) ==
    /\ job.finished_at = None
    /\ job.result_locator = "none" /\ job.failure_code = "none"
    /\ \/ /\ job.status = "queued"
          /\ job.updated_at = job.created_at
          /\ job.started_at = None /\ job.cancel_requested_at = None
       \/ /\ job.status = "running"
          /\ job.started_at # None /\ job.updated_at = job.started_at
          /\ job.cancel_requested_at = None
       \/ /\ job.status = "cancel_requested"
          /\ job.started_at # None /\ job.cancel_requested_at # None
          /\ job.updated_at = job.cancel_requested_at

ValidTerminal(job) ==
    /\ job.finished_at # None /\ job.updated_at = job.finished_at
    /\ \/ /\ job.status = "succeeded"
          /\ job.started_at # None /\ job.cancel_requested_at = None
          /\ job.result_locator = "saved" /\ job.failure_code = "none"
       \/ /\ job.status = "failed"
          /\ job.cancel_requested_at = None /\ job.result_locator = "none"
          /\ job.failure_code \in {"execution_failed", "worker_restarted"}
          /\ job.failure_code = "execution_failed" => job.started_at # None
       \/ /\ job.status = "cancelled"
          /\ job.cancel_requested_at # None /\ job.result_locator = "none"
          /\ job.failure_code = "none"
       \/ /\ job.status = "timed_out"
          /\ job.started_at = None /\ job.cancel_requested_at = None
          /\ job.result_locator = "none"
          /\ job.failure_code = "queue_start_expired"

ValidState(job) ==
    ValidTimes(job) /\ (ValidActive(job) \/ ValidTerminal(job))

NewQueuedJob(b, now) ==
    [binding |-> b, status |-> "queued", revision |-> 0, created_at |-> now,
     updated_at |-> now, started_at |-> None, cancel_requested_at |-> None,
     finished_at |-> None, result_locator |-> "none", failure_code |-> "none"]

TerminalJob(job, status, now, result, failure, cancelledAt) ==
    [job EXCEPT !.status = status, !.revision = @ + 1, !.updated_at = now,
                !.cancel_requested_at = cancelledAt, !.finished_at = now,
                !.result_locator = result, !.failure_code = failure]

TimedOutJob(job, now) ==
    TerminalJob(job, "timed_out", now, "none", "queue_start_expired", None)

\* _ensure_time_order
TimeOrderedStrict(job, now) == now > job.updated_at         \* mutant
TimeOrdered(job, now) == now >= job.updated_at

-----------------------------------------------------------------------------
(* Repository transactions: the row each one leaves behind, once it has    *)
(* found the row and checked its time order.                               *)

GetJob(job, now) ==
    IF job.status = "queued" /\ now >= StartBefore(job)
    THEN TimedOutJob(job, now) ELSE job

ClaimJobLate(job, now) ==                                    \* mutant
    IF job.status # "queued" THEN job
    ELSE IF now > StartBefore(job) THEN TimedOutJob(job, now)
    ELSE [job EXCEPT !.status = "running", !.revision = @ + 1,
                     !.updated_at = now, !.started_at = now]
ClaimJob(job, now) ==
    IF job.status # "queued" THEN job
    ELSE IF now >= StartBefore(job) THEN TimedOutJob(job, now)
    ELSE [job EXCEPT !.status = "running", !.revision = @ + 1,
                     !.updated_at = now, !.started_at = now]

CancelJob(job, now) ==
    CASE job.status = "queued" ->
           TerminalJob(job, "cancelled", now, "none", "none", now)
      [] job.status = "running" ->
           [job EXCEPT !.status = "cancel_requested", !.revision = @ + 1,
                       !.updated_at = now, !.cancel_requested_at = now]
      [] OTHER -> job

\* _finish for a job in {"running", "cancel_requested"}: cancellation wins.
FinishJobResultWins(job, outcome, now) ==                    \* mutant
    IF outcome = "cancelled"
    THEN TerminalJob(job, "cancelled", now, "none", "none", now)
    ELSE IF outcome = "success"
    THEN TerminalJob(job, "succeeded", now, "saved", "none", None)
    ELSE TerminalJob(job, "failed", now, "none", "execution_failed", None)
FinishJobCode(job, outcome, now) ==                          \* mutant
    IF outcome = "cancelled" \/ job.status = "cancel_requested"
    THEN TerminalJob(job, "cancelled", now, "none", "cancelled", now)
    ELSE IF outcome = "success"
    THEN TerminalJob(job, "succeeded", now, "saved", "none", None)
    ELSE TerminalJob(job, "failed", now, "none", "execution_failed", None)
FinishJob(job, outcome, now) ==
    IF outcome = "cancelled" \/ job.status = "cancel_requested"
    THEN TerminalJob(job, "cancelled", now, "none", "none",
                     IF job.cancel_requested_at # None
                     THEN job.cancel_requested_at ELSE now)
    ELSE IF outcome = "success"
    THEN TerminalJob(job, "succeeded", now, "saved", "none", None)
    ELSE TerminalJob(job, "failed", now, "none", "execution_failed", None)

\* recover_interrupted, applied to every active row in one transaction
RecoverJobRequeue(job, now) ==                               \* mutant
    IF job.status \notin Active THEN job
    ELSE [NewQueuedJob(job.binding, now) EXCEPT !.revision = job.revision + 1]
RecoverJob(job, now) ==
    IF job.status \notin Active THEN job
    ELSE IF job.status = "cancel_requested"
    THEN TerminalJob(job, "cancelled", now, "none", "none",
                     job.cancel_requested_at)
    ELSE TerminalJob(job, "failed", now, "none", "worker_restarted", None)

\* _owned_row followed by _ensure_time_order: may the transaction go on?
Readable(l, now) == rows[l] # NoRow /\ TimeOrdered(rows[l], now)

\* The transaction that would turn l's row into job raises an OSError or a
\* sqlite3.Error, which every method maps to SearchJobStorageError: nothing
\* is written, except by a COMMIT that fails after it took effect.
StorageError(l, now, job) ==
    \/ UNCHANGED rows
    \/ Readable(l, now) /\ rows' = [rows EXCEPT ![l] = job]

\* bound: the storage may still fail the worker
MayFail == regressed + Cardinality(unstored) < MaxFaults

-----------------------------------------------------------------------------
(* Initial state: an empty database, an executor just constructed *)

WorkerAt(pc, l, t, outcome) == [pc |-> pc, loc |-> l, t |-> t, outcome |-> outcome]
WorkerIdle == WorkerAt("idle", Stop, 0, "success")
ClientAt(pc, l, t) == [pc |-> pc, loc |-> l, t |-> t]
ClientIdle == ClientAt("idle", Stop, 0)

Init ==
    /\ rows = [l \in Locators |-> NoRow]
    /\ issued = {} /\ clock = 0
    /\ up = TRUE /\ accepting = TRUE /\ queue = <<>>
    /\ events = {} /\ flagged = {}
    /\ worker = WorkerIdle
    /\ clients = [c \in Clients |-> ClientIdle]
    /\ acked = {} /\ starts = [l \in Locators |-> 0]
    /\ unstored = {} /\ exits = 0 /\ regressed = 0

-----------------------------------------------------------------------------
(* API threads *)

\* submit(): _state_lock is held from the _accepting test to the queue put,
\* and the locator is known to nobody else until the call returns.  An enqueue
\* whose COMMIT raises after it took effect leaves the row with neither event
\* nor place in the queue; the next submit() of its binding returns that row.
Submit(b) ==
    /\ up /\ accepting
    /\ \/ /\ \E l \in Locators : rows[l] # NoRow /\ rows[l].binding = b
          /\ UNCHANGED <<rows, issued, events, queue, unstored>>
       \/ /\ ~ \E l \in Locators : rows[l] # NoRow /\ rows[l].binding = b
          /\ \E l \in Locators \ issued :
                /\ rows' = [rows EXCEPT ![l] = NewQueuedJob(b, clock)]
                /\ issued' = issued \cup {l}
                /\ \/ /\ events' = events \cup {l}
                      /\ queue' = Append(queue, l)
                      /\ UNCHANGED unstored
                   \/ /\ MayFail
                      /\ unstored' = unstored \cup {l}
                      /\ UNCHANGED <<events, queue>>
    /\ UNCHANGED <<clock, up, accepting, flagged, worker, clients, acked,
                   starts, exits, regressed>>

\* get(): the clock is read, then the transaction runs.
GetBegin(c, l) ==
    /\ up /\ clients[c].pc = "idle" /\ l \in issued
    /\ clients' = [clients EXCEPT ![c] = ClientAt("get", l, clock)]
    /\ UNCHANGED <<rows, issued, clock, up, accepting, queue, events, flagged,
                   worker, acked, starts, unstored, exits, regressed>>

GetReply(l, now) ==
    IF rows[l] = NoRow THEN "not_found"
    ELSE IF ~TimeOrdered(rows[l], now) THEN "state_error"
    ELSE IF PurgeDue(rows[l], now) THEN "not_found" ELSE "ok"

GetTxn(c) ==
    /\ up /\ clients[c].pc = "get"
    /\ LET l == clients[c].loc
           t == clients[c].t
       IN /\ IF GetReply(l, t) = "ok"
             THEN \/ rows' = [rows EXCEPT ![l] = GetJob(rows[l], t)]
                  \/ StorageError(l, t, GetJob(rows[l], t))
             ELSE UNCHANGED rows
          /\ clients' = [clients EXCEPT ![c] = ClientIdle]
    /\ UNCHANGED <<issued, clock, up, accepting, queue, events, flagged,
                   worker, acked, starts, unstored, exits, regressed>>

\* cancel(): the clock is read, the transaction commits, then the event of a
\* job that is still registered is set under _state_lock.  The snapshot that
\* is returned is the transaction's, so a row left in cancel_requested or
\* cancelled counts as an acknowledged cancellation from the commit on, also
\* when the commit raises and the call ends there, without the event.
CancelBegin(c, l) ==
    /\ up /\ clients[c].pc = "idle" /\ l \in issued
    /\ clients' = [clients EXCEPT ![c] = ClientAt("cancel", l, clock)]
    /\ UNCHANGED <<rows, issued, clock, up, accepting, queue, events, flagged,
                   worker, acked, starts, unstored, exits, regressed>>

CancelTxn(c) ==
    /\ up /\ clients[c].pc = "cancel"
    /\ LET l == clients[c].loc
           t == clients[c].t
       IN \/ /\ ~Readable(l, t)
             /\ clients' = [clients EXCEPT ![c] = ClientIdle]
             /\ UNCHANGED <<rows, acked>>
          \/ /\ Readable(l, t)
             /\ StorageError(l, t, CancelJob(rows[l], t))
             /\ acked' = IF rows'[l].status \in {"cancel_requested", "cancelled"}
                         THEN acked \cup {l} ELSE acked
             /\ clients' = [clients EXCEPT ![c] = ClientIdle]
          \/ /\ Readable(l, t)
             /\ rows' = [rows EXCEPT ![l] = CancelJob(rows[l], t)]
             /\ acked' = IF CancelJob(rows[l], t).status
                            \in {"cancel_requested", "cancelled"}
                         THEN acked \cup {l} ELSE acked
             /\ clients' = [clients EXCEPT ![c] = ClientAt("signal", l, 0)]
    /\ UNCHANGED <<issued, clock, up, accepting, queue, events, flagged,
                   worker, starts, unstored, exits, regressed>>

CancelSignal(c) ==
    /\ up /\ clients[c].pc = "signal"
    /\ flagged' = flagged \cup (events \cap {clients[c].loc})
    /\ clients' = [clients EXCEPT ![c] = ClientIdle]
    /\ UNCHANGED <<rows, issued, clock, up, accepting, queue, events, worker,
                   acked, starts, unstored, exits, regressed>>

\* shutdown(): idempotent; the worker drains the queue up to _STOP.
StopInFront(q) == <<Stop>> \o q                              \* mutant
WithStop(q) == Append(q, Stop)

Shutdown ==
    /\ up /\ accepting
    /\ accepting' = FALSE
    /\ queue' = WithStop(queue)
    /\ UNCHANGED <<rows, issued, clock, up, events, flagged, worker, clients,
                   acked, starts, unstored, exits, regressed>>

-----------------------------------------------------------------------------
(* The worker thread: _run and _run_one *)

\* queue.get(); _STOP ends the thread, a job has its clock read next.
WorkerTake ==
    /\ up /\ worker.pc = "idle" /\ queue # <<>>
    /\ queue' = Tail(queue)
    /\ worker' = IF Head(queue) = Stop
                 THEN WorkerAt("stopped", Stop, 0, "success")
                 ELSE WorkerAt("claim", Head(queue), clock, "success")
    /\ UNCHANGED <<rows, issued, clock, up, accepting, events, flagged,
                   clients, acked, starts, unstored, exits, regressed>>

\* What _run_one does with the claimed row: any status but running returns.
AlwaysBegin(job) == "begin"                                  \* mutant
AfterClaim(job) == IF job.status = "running" THEN "begin" ELSE "drop"

\* claim_for_execution: an error, a refusal as well as a storage error, is
\* swallowed and leaves, like a job that is not running, through the finally
\* clause.  Nothing puts the job back into the queue.
WorkerClaim ==
    /\ up /\ worker.pc = "claim"
    /\ LET l == worker.loc
           claimed == ClaimJob(rows[l], worker.t)
       IN \/ /\ ~Readable(l, worker.t)
             /\ worker' = WorkerAt("drop", l, 0, "success")
             /\ UNCHANGED <<rows, unstored>>
          \/ /\ MayFail /\ StorageError(l, worker.t, claimed)
             /\ worker' = WorkerAt("drop", l, 0, "success")
             /\ unstored' = unstored \cup {l}
          \/ /\ Readable(l, worker.t)
             /\ rows' = [rows EXCEPT ![l] = claimed]
             /\ worker' = WorkerAt(AfterClaim(claimed), l, 0, "success")
             /\ UNCHANGED unstored
    /\ UNCHANGED <<issued, clock, up, accepting, queue, events, flagged,
                   clients, acked, starts, exits, regressed>>

\* The executor's own checkpoint(), then the callback is entered.
WorkerBegin ==
    /\ up /\ worker.pc = "begin"
    /\ \/ /\ worker.loc \in flagged
          /\ worker' = WorkerAt("finish", worker.loc, clock, "cancelled")
          /\ UNCHANGED starts
       \/ /\ worker.loc \notin flagged
          /\ worker' = WorkerAt("run", worker.loc, 0, "success")
          /\ starts' = [starts EXCEPT ![worker.loc] = @ + 1]
    /\ UNCHANGED <<rows, issued, clock, up, accepting, queue, events, flagged,
                   clients, acked, unstored, exits, regressed>>

\* The callback returns a result, raises, or stops at a checkpoint() that
\* found the event set; the clock is then read for the finish transaction.
RunnerEnds(outcome) ==
    /\ up /\ worker.pc = "run"
    /\ outcome = "cancelled" => worker.loc \in flagged
    /\ worker' = WorkerAt("finish", worker.loc, clock, outcome)
    /\ UNCHANGED <<rows, issued, clock, up, accepting, queue, events, flagged,
                   clients, acked, starts, unstored, exits, regressed>>

\* finish_success, finish_failure or finish_cancelled; _run_one swallows the
\* error of a transaction that is refused or that the storage failed.
WorkerFinish ==
    /\ up /\ worker.pc = "finish"
    /\ LET l == worker.loc
           finished == FinishJob(rows[l], worker.outcome, worker.t)
           accepted == /\ Readable(l, worker.t)
                       /\ rows[l].status \in {"running", "cancel_requested"}
       IN \/ /\ rows' = IF accepted THEN [rows EXCEPT ![l] = finished] ELSE rows
             /\ UNCHANGED unstored
          \/ /\ MayFail /\ accepted
             /\ StorageError(l, worker.t, finished)
             /\ unstored' = unstored \cup {l}
    /\ worker' = WorkerAt("drop", worker.loc, 0, "success")
    /\ UNCHANGED <<issued, clock, up, accepting, queue, events, flagged,
                   clients, acked, starts, exits, regressed>>

\* finally: _cancel_events.pop(locator), then task_done().
WorkerDrop ==
    /\ up /\ worker.pc = "drop"
    /\ events' = events \ {worker.loc}
    /\ flagged' = flagged \ {worker.loc}
    /\ worker' = WorkerIdle
    /\ UNCHANGED <<rows, issued, clock, up, accepting, queue, clients, acked,
                   starts, unstored, exits, regressed>>

-----------------------------------------------------------------------------
(* The environment: retention, time, process exit and restart *)

\* purge_expired() deletes every row whose retention is over.
Purge ==
    /\ up
    /\ rows' = [l \in Locators |->
                  IF PurgeDue(rows[l], clock) THEN NoRow ELSE rows[l]]
    /\ rows' # rows
    /\ UNCHANGED <<issued, clock, up, accepting, queue, events, flagged,
                   worker, clients, acked, starts, unstored, exits, regressed>>

Tick ==
    /\ clock < MaxTime
    /\ clock' = clock + 1
    /\ UNCHANGED <<rows, issued, up, accepting, queue, events, flagged, worker,
                   clients, acked, starts, unstored, exits, regressed>>

\* The wall clock is set back.
Regress ==
    /\ exits + regressed < MaxFaults /\ MayFail /\ clock > 0
    /\ clock' = clock - 1
    /\ regressed' = regressed + 1
    /\ UNCHANGED <<rows, issued, up, accepting, queue, events, flagged, worker,
                   clients, acked, starts, unstored, exits>>

\* The process ends at any point; the worker is a daemon thread, so every
\* in-memory structure and every call in progress is lost.
Exit ==
    /\ up /\ exits + regressed < MaxFaults
    /\ up' = FALSE /\ accepting' = FALSE /\ queue' = <<>>
    /\ events' = {} /\ flagged' = {}
    /\ worker' = WorkerIdle
    /\ clients' = [c \in Clients |-> ClientIdle]
    /\ unstored' = {} /\ exits' = exits + 1
    /\ UNCHANGED <<rows, issued, clock, acked, starts, regressed>>

\* LocalSearchJobExecutor.__init__: recover_interrupted() runs before the
\* worker exists, and one row from the future makes the constructor fail.
Restart ==
    /\ ~up
    /\ \A l \in Locators :
          rows[l].status \in Active => TimeOrdered(rows[l], clock)
    /\ rows' = [l \in Locators |-> RecoverJob(rows[l], clock)]
    /\ up' = TRUE /\ accepting' = TRUE
    /\ UNCHANGED <<issued, clock, queue, events, flagged, worker, clients,
                   acked, starts, unstored, exits, regressed>>

-----------------------------------------------------------------------------

WorkerStep ==
    \/ WorkerTake \/ WorkerClaim \/ WorkerBegin
    \/ \E outcome \in Outcomes : RunnerEnds(outcome)
    \/ WorkerFinish \/ WorkerDrop

ClientStep(c) ==
    \/ \E l \in Locators : GetBegin(c, l) \/ CancelBegin(c, l)
    \/ GetTxn(c) \/ CancelTxn(c) \/ CancelSignal(c)

Next ==
    \/ WorkerStep
    \/ \E b \in Bindings : Submit(b)
    \/ \E c \in Clients : ClientStep(c)
    \/ Shutdown \/ Purge \/ Tick \/ Regress \/ Exit \/ Restart

Spec == Init /\ [][Next]_vars

\* The worker thread runs whenever it can, a callback ends (each provider and
\* image call below it has its own deadline), and an ended process is
\* started again with its database readable.  Nothing is assumed of API
\* threads, of the clock or of the storage while the process runs.
Fairness == WF_vars(WorkerStep) /\ WF_vars(Restart)

FairSpec == Spec /\ Fairness

-----------------------------------------------------------------------------
(* Safety *)

\* The variables keep their types.
TypeOK ==
    /\ rows \in [Locators -> Rows \cup {NoRow}]
    /\ issued \subseteq Locators
    /\ clock \in Nat /\ exits \in Nat /\ regressed \in Nat
    /\ up \in BOOLEAN /\ accepting \in BOOLEAN
    /\ queue \in Seq(Locators \cup {Stop})
    /\ events \subseteq Locators /\ flagged \subseteq Locators
    /\ worker \in [pc : {"idle", "claim", "begin", "run", "finish", "drop",
                         "stopped"},
                   loc : Locators \cup {Stop}, t : Nat, outcome : Outcomes]
    /\ clients \in [Clients -> [pc : {"idle", "get", "cancel", "signal"},
                                loc : Locators \cup {Stop}, t : Nat]]
    /\ acked \subseteq Locators /\ starts \in [Locators -> Nat]
    /\ unstored \subseteq Locators

\* No sequence of transactions, however stale their clocks, writes a row that
\* SearchJobSnapshot.validate_state would reject on the next read: a rejected
\* row would make every later get, claim and recovery fail as storage error.
RowsValid == \A l \in Locators : rows[l] # NoRow => ValidState(rows[l])

\* A callback (one paid provider task) is entered at most once per job, and
\* only after the row was claimed: a job cancelled or expired while queued,
\* or failed by a restart before its turn, never runs.
RunsAtMostOnce ==
    \A l \in Locators :
        /\ starts[l] <= 1
        /\ starts[l] = 1 /\ rows[l] # NoRow => rows[l].started_at # None

\* While the callback runs its row is running or cancel_requested: no API
\* call, expiry or purge ends or deletes a job under a running callback.
CallbackOwnsActiveRow ==
    worker.pc \in {"begin", "run", "finish"} =>
        rows[worker.loc].status \in {"running", "cancel_requested"}

\* Once a cancellation was acknowledged to a caller the job can only be
\* cancelled: a late result, a late failure or a restart never overrides it.
AckedCancelWins ==
    \A l \in acked : rows[l].status \in {"cancel_requested", "cancelled", "absent"}

\* A job is cancelled only because some caller asked for it.
NoSpuriousCancel ==
    \A l \in Locators :
        rows[l].status \in {"cancel_requested", "cancelled"} => l \in acked

\* As long as the process lives and its clock was not set back, a queued row
\* is still in the queue or in the hands of the worker, in front of any _STOP.
\* A job whose own enqueue or claim the storage failed is the exception: its
\* row waits for a get(), a cancel() or the next start, with nobody left to
\* run it ...
QueuedHasPlace ==
    regressed = 0 /\ up => \A l \in Locators : rows[l].status = "queued" =>
        \/ worker.pc = "claim" /\ worker.loc = l
        \/ \E i \in 1..Len(queue) :
              queue[i] = l /\ \A j \in 1..i : queue[j] # Stop
        \/ l \in unstored

\* ... and a running row belongs to the worker that runs it, so at most one
\* job is running and none is orphaned, but for a job whose own claim or
\* finish the storage failed.
RunningHasWorker ==
    regressed = 0 /\ up => \A l \in Locators : rows[l].status = "running" =>
        \/ worker.loc = l /\ worker.pc \in {"begin", "run", "finish"}
        \/ l \in unstored

\* A job is lost in one way only: the storage failed its own enqueue, after
\* the row was committed, or its own claim or finish, which _run_one swallows.
\* For every other job the table and the queue in
\* memory, which only the worker and submit() keep together, agree until it
\* is finished, whatever happened to the jobs before it.
NoLostJob == QueuedHasPlace /\ RunningHasWorker

\* A finished job is immutable until purge_expired() deletes it, and that
\* never before its retention is over.
FinalRowsStay ==
    [][\A l \in Locators : rows[l].status \in Terminal =>
          \/ rows'[l] = rows[l]
          \/ rows'[l] = NoRow /\ clock >= rows[l].finished_at + Retention]_vars

-----------------------------------------------------------------------------
(* Refinement: JobLifecycle with the table's statuses *)

LifecycleStatus ==
    [l \in Locators |-> IF rows[l] # NoRow THEN rows[l].status
                        ELSE IF l \in issued THEN "gone" ELSE "fresh"]

Entered == {l \in Locators : starts[l] > 0}

Lifecycle == INSTANCE JobLifecycle
    WITH Jobs <- Locators, status <- LifecycleStatus, entered <- Entered

\* Callers observe the abstract life cycle and nothing else.
ImplementsLifecycle == Lifecycle!Spec

-----------------------------------------------------------------------------
(* Liveness, under FairSpec *)

\* Every queued or running job is finished or asked to end: the worker gets
\* to it, or a restart settles it.  The exceptions are a clock that is set
\* back and a storage error in the job's own enqueue, claim or finish, after
\* which the row may keep its status for as long as the process lives.
JobsSettle ==
    \A l \in Locators :
        LET excused == regressed > 0 \/ l \in unstored
            waiting == rows[l].status \in {"queued", "running"}
        IN  (waiting /\ ~excused) ~> (~waiting \/ excused)

\* shutdown() returns: the worker drains the queue and stops.
ShutdownCompletes == (up /\ ~accepting) ~> (worker.pc = "stopped" \/ ~up)

\* The worker delivers: it settles every job the storage lets it settle and it
\* stops when it is told to, storage errors or not.
WorkerDelivers == JobsSettle /\ ShutdownCompletes

-----------------------------------------------------------------------------
(* What the repository's tests and documents say and the code does not do *)

\* tests/test_search_v2_search_job.py:240-243: a running job whose cancellation
\* was requested is cancelled by the time wait_until_idle() returns.
CancelCompletes ==
    \A l \in Locators :
        (rows[l].status = "cancel_requested") ~> (rows[l].status = "cancelled")
=============================================================================
