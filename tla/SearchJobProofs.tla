--------------------------- MODULE SearchJobProofs ---------------------------
(***************************************************************************)
(* Proofs about SearchJob for every set of locators, bindings and API      *)
(* threads and every deadline, with process exits, storage errors and a    *)
(* clock that may be set back at any time.                                 *)
(***************************************************************************)
EXTENDS SearchJob, SequenceTheorems, TLAPS

-----------------------------------------------------------------------------
(* Row lemmas: what each transaction does to a valid row.  The action      *)
(* proofs below use only these facts, never the record constructions.      *)

\* A row's fields have their column types.
LEMMA RowFields ==
    ASSUME NEW job \in Rows
    PROVE  /\ job.created_at \in Nat /\ job.updated_at \in Nat
           /\ job.started_at \in Nat \cup {None}
           /\ job.cancel_requested_at \in Nat \cup {None}
           /\ job.finished_at \in Nat \cup {None}
           /\ job.status \in Statuses
           /\ job # NoRow /\ job.status # "absent"
BY DEF Rows, Times, NoRow, Statuses, Active, Terminal

\* The values the transactions write are column values.
LEMMA ColumnValues ==
    /\ None \in Times /\ Nat \subseteq Times
    /\ "queued" \in Statuses /\ "running" \in Statuses
    /\ "cancel_requested" \in Statuses /\ "cancelled" \in Statuses
    /\ "succeeded" \in Statuses /\ "failed" \in Statuses
    /\ "timed_out" \in Statuses
    /\ "none" \in Results /\ "saved" \in Results
    /\ "none" \in Failures /\ "execution_failed" \in Failures
    /\ "queue_start_expired" \in Failures /\ "worker_restarted" \in Failures
BY DEF Times, Statuses, Active, Terminal, Results, Failures

\* _terminal_job sets exactly the fields it names.
LEMMA TerminalJobFields ==
    ASSUME NEW job \in Rows, NEW status \in Statuses, NEW now \in Nat,
           NEW result \in Results, NEW failure \in Failures, NEW at \in Times
    PROVE  LET r == TerminalJob(job, status, now, result, failure, at)
           IN  /\ r \in Rows
               /\ r.status = status /\ r.created_at = job.created_at
               /\ r.updated_at = now /\ r.started_at = job.started_at
               /\ r.cancel_requested_at = at /\ r.finished_at = now
               /\ r.result_locator = result /\ r.failure_code = failure
<1>1. job.revision + 1 \in Nat /\ now \in Times
  BY DEF Rows, Times
<1>2. QED
  BY <1>1 DEF TerminalJob, Rows

\* A fresh row is valid.
LEMMA NewQueuedJobFacts ==
    ASSUME NEW b \in Bindings, NEW now \in Nat
    PROVE  /\ NewQueuedJob(b, now) \in Rows
           /\ ValidState(NewQueuedJob(b, now))
           /\ NewQueuedJob(b, now).status = "queued"
BY SearchJobAssumption
   DEF NewQueuedJob, Rows, ValidState, ValidTimes, ValidActive, StartBefore,
       Statuses, Active, Times, None, Failures, Results

\* A queued row past its start deadline becomes a valid timed_out row.
LEMMA TimedOutJobFacts ==
    ASSUME NEW job \in Rows, ValidState(job), job.status = "queued",
           NEW now \in Nat, TimeOrdered(job, now)
    PROVE  /\ TimedOutJob(job, now) \in Rows
           /\ ValidState(TimedOutJob(job, now))
           /\ TimedOutJob(job, now).status = "timed_out"
<1> DEFINE r == TimedOutJob(job, now)
<1>1. /\ r \in Rows /\ r.status = "timed_out" /\ r.updated_at = now
      /\ r.created_at = job.created_at /\ r.started_at = job.started_at
      /\ r.cancel_requested_at = None /\ r.finished_at = now
      /\ r.result_locator = "none" /\ r.failure_code = "queue_start_expired"
  BY TerminalJobFields, ColumnValues DEF TimedOutJob
<1> HIDE DEF r
<1>2. ValidState(r)
  BY <1>1, RowFields, SearchJobAssumption
     DEF TimeOrdered, ValidState, ValidTimes, ValidActive, ValidTerminal,
         StartBefore, Terminal, None
<1>3. QED
  BY <1>1, <1>2 DEF r

\* get() times out a queued row or leaves the row alone.
LEMMA GetJobFacts ==
    ASSUME NEW job \in Rows, ValidState(job),
           NEW now \in Nat, TimeOrdered(job, now)
    PROVE  /\ GetJob(job, now) \in Rows
           /\ ValidState(GetJob(job, now))
           /\ \/ GetJob(job, now) = job
              \/ job.status = "queued" /\ GetJob(job, now).status = "timed_out"
BY TimedOutJobFacts DEF GetJob

\* claim_for_execution moves a queued row to running or timed_out and leaves
\* every other row alone.
LEMMA ClaimJobFacts ==
    ASSUME NEW job \in Rows, ValidState(job),
           NEW now \in Nat, TimeOrdered(job, now)
    PROVE  /\ ClaimJob(job, now) \in Rows
           /\ ValidState(ClaimJob(job, now))
           /\ job.status # "queued" => ClaimJob(job, now) = job
           /\ job.status = "queued" =>
                ClaimJob(job, now).status \in {"running", "timed_out"}
<1>1. CASE job.status # "queued"
  BY <1>1 DEF ClaimJob
<1>2. CASE job.status = "queued" /\ now >= StartBefore(job)
  BY <1>2, TimedOutJobFacts DEF ClaimJob
<1>3. CASE job.status = "queued" /\ ~(now >= StartBefore(job))
  <2> DEFINE r == ClaimJob(job, now)
  <2>1. job.revision + 1 \in Nat /\ now \in Times /\ "running" \in Statuses
    BY DEF Rows, Times, Statuses, Active
  <2>2. /\ r \in Rows /\ r.status = "running" /\ r.updated_at = now
        /\ r.created_at = job.created_at /\ r.started_at = now
        /\ r.cancel_requested_at = job.cancel_requested_at
        /\ r.finished_at = job.finished_at
        /\ r.result_locator = job.result_locator
        /\ r.failure_code = job.failure_code
    BY <1>3, <2>1 DEF ClaimJob, Rows
  <2> HIDE DEF r
  <2>3. ValidState(r)
    BY <2>2, <1>3, RowFields, SearchJobAssumption
       DEF TimeOrdered, ValidState, ValidTimes, ValidActive, ValidTerminal,
           StartBefore, Terminal, None
  <2>4. QED
    BY <1>3, <2>2, <2>3 DEF r
<1>4. QED
  BY <1>1, <1>2, <1>3

\* request_cancel moves queued to cancelled and running to cancel_requested.
LEMMA CancelJobFacts ==
    ASSUME NEW job \in Rows, ValidState(job),
           NEW now \in Nat, TimeOrdered(job, now)
    PROVE  /\ CancelJob(job, now) \in Rows
           /\ ValidState(CancelJob(job, now))
           /\ CancelJob(job, now).started_at = job.started_at
           /\ job.status = "queued" => CancelJob(job, now).status = "cancelled"
           /\ job.status = "running" =>
                CancelJob(job, now).status = "cancel_requested"
           /\ job.status \notin {"queued", "running"} =>
                CancelJob(job, now) = job
<1> DEFINE r == CancelJob(job, now)
<1>1. CASE job.status = "queued"
  <2>1. /\ r \in Rows /\ r.status = "cancelled" /\ r.updated_at = now
        /\ r.created_at = job.created_at /\ r.started_at = job.started_at
        /\ r.cancel_requested_at = now /\ r.finished_at = now
        /\ r.result_locator = "none" /\ r.failure_code = "none"
    <3>1. now \in Times
      BY ColumnValues
    <3>2. r = TerminalJob(job, "cancelled", now, "none", "none", now)
      BY <1>1 DEF CancelJob
    <3>3. QED
      BY <3>1, <3>2, TerminalJobFields, ColumnValues
  <2> HIDE DEF r
  <2>2. ValidState(r)
    BY <2>1, <1>1, RowFields, SearchJobAssumption
       DEF TimeOrdered, ValidState, ValidTimes, ValidActive, ValidTerminal,
           StartBefore, Terminal, None
  <2>3. QED
    BY <1>1, <2>1, <2>2 DEF r
<1>2. CASE job.status = "running"
  <2>1. /\ job.revision + 1 \in Nat /\ now \in Times
        /\ "cancel_requested" \in Statuses
    BY DEF Rows, Times, Statuses, Active
  <2>2. /\ r \in Rows /\ r.status = "cancel_requested" /\ r.updated_at = now
        /\ r.created_at = job.created_at /\ r.started_at = job.started_at
        /\ r.cancel_requested_at = now /\ r.finished_at = job.finished_at
        /\ r.result_locator = job.result_locator
        /\ r.failure_code = job.failure_code
    BY <1>2, <2>1 DEF CancelJob, Rows
  <2> HIDE DEF r
  <2>3. ValidState(r)
    BY <2>2, <1>2, RowFields, SearchJobAssumption
       DEF TimeOrdered, ValidState, ValidTimes, ValidActive, ValidTerminal,
           StartBefore, Terminal, None
  <2>4. QED
    BY <1>2, <2>2, <2>3 DEF r
<1>3. CASE job.status \notin {"queued", "running"}
  <2>1. CancelJob(job, now) = job
    BY <1>3 DEF CancelJob
  <2>2. QED
    BY <2>1, <1>3
<1>4. QED
  BY <1>1, <1>2, <1>3

\* _finish ends a running row by its outcome and a cancel_requested row in
\* cancelled whatever the outcome.
LEMMA FinishJobFacts ==
    ASSUME NEW job \in Rows, ValidState(job),
           job.status \in {"running", "cancel_requested"},
           NEW now \in Nat, TimeOrdered(job, now), NEW outcome \in Outcomes
    PROVE  /\ FinishJob(job, outcome, now) \in Rows
           /\ ValidState(FinishJob(job, outcome, now))
           /\ FinishJob(job, outcome, now).started_at = job.started_at
           /\ FinishJob(job, outcome, now).status =
                IF outcome = "cancelled" \/ job.status = "cancel_requested"
                THEN "cancelled"
                ELSE IF outcome = "success" THEN "succeeded" ELSE "failed"
<1> DEFINE r == FinishJob(job, outcome, now)
           at == IF job.cancel_requested_at # None
                 THEN job.cancel_requested_at ELSE now
<1>1. at \in Times /\ None \in Times
  BY RowFields DEF Times
<1>2. CASE outcome = "cancelled" \/ job.status = "cancel_requested"
  <2>1. /\ r \in Rows /\ r.status = "cancelled" /\ r.updated_at = now
        /\ r.created_at = job.created_at /\ r.started_at = job.started_at
        /\ r.cancel_requested_at = at /\ r.finished_at = now
        /\ r.result_locator = "none" /\ r.failure_code = "none"
    BY <1>1, <1>2, TerminalJobFields, ColumnValues DEF FinishJob
  <2> HIDE DEF r
  <2>2. ValidState(r)
    BY <2>1, RowFields, SearchJobAssumption
       DEF TimeOrdered, ValidState, ValidTimes, ValidActive, ValidTerminal,
           StartBefore, Terminal, None
  <2>3. QED
    BY <1>2, <2>1, <2>2 DEF r
<1>3. CASE /\ ~(outcome = "cancelled" \/ job.status = "cancel_requested")
           /\ outcome = "success"
  <2>1. /\ r \in Rows /\ r.status = "succeeded" /\ r.updated_at = now
        /\ r.created_at = job.created_at /\ r.started_at = job.started_at
        /\ r.cancel_requested_at = None /\ r.finished_at = now
        /\ r.result_locator = "saved" /\ r.failure_code = "none"
    BY <1>1, <1>3, TerminalJobFields, ColumnValues DEF FinishJob
  <2> HIDE DEF r
  <2>2. ValidState(r)
    BY <1>3, <2>1, RowFields, SearchJobAssumption
       DEF TimeOrdered, ValidState, ValidTimes, ValidActive, ValidTerminal,
           StartBefore, Terminal, None
  <2>3. QED
    BY <1>3, <2>1, <2>2 DEF r
<1>4. CASE /\ ~(outcome = "cancelled" \/ job.status = "cancel_requested")
           /\ outcome # "success"
  <2>1. /\ r \in Rows /\ r.status = "failed" /\ r.updated_at = now
        /\ r.created_at = job.created_at /\ r.started_at = job.started_at
        /\ r.cancel_requested_at = None /\ r.finished_at = now
        /\ r.result_locator = "none" /\ r.failure_code = "execution_failed"
    BY <1>1, <1>4, TerminalJobFields, ColumnValues DEF FinishJob
  <2> HIDE DEF r
  <2>2. ValidState(r)
    BY <1>4, <2>1, RowFields, SearchJobAssumption
       DEF TimeOrdered, ValidState, ValidTimes, ValidActive, ValidTerminal,
           StartBefore, Terminal, None
  <2>3. QED
    BY <1>4, <2>1, <2>2 DEF r
<1>5. QED
  BY <1>2, <1>3, <1>4

\* recover_interrupted settles an active row and leaves a terminal one alone.
LEMMA RecoverJobFacts ==
    ASSUME NEW job \in Rows, ValidState(job), NEW now \in Nat,
           job.status \in Active => TimeOrdered(job, now)
    PROVE  /\ RecoverJob(job, now) \in Rows
           /\ ValidState(RecoverJob(job, now))
           /\ RecoverJob(job, now).started_at = job.started_at
           /\ RecoverJob(job, now).status = Lifecycle!Recovered(job.status)
           /\ job.status \notin Active => RecoverJob(job, now) = job
<1> DEFINE r == RecoverJob(job, now)
<1>1. job.cancel_requested_at \in Times /\ None \in Times
  BY RowFields DEF Times
<1>2. CASE job.status = "cancel_requested"
  <2>1. /\ r \in Rows /\ r.status = "cancelled" /\ r.updated_at = now
        /\ r.created_at = job.created_at /\ r.started_at = job.started_at
        /\ r.cancel_requested_at = job.cancel_requested_at
        /\ r.finished_at = now
        /\ r.result_locator = "none" /\ r.failure_code = "none"
    <3> DEFINE at == job.cancel_requested_at
    <3>1. r = TerminalJob(job, "cancelled", now, "none", "none", at)
      BY <1>2 DEF RecoverJob, Active
    <3>2. at \in Times
      BY <1>1
    <3> HIDE DEF r, at
    <3>3. /\ r \in Rows /\ r.status = "cancelled" /\ r.updated_at = now
          /\ r.created_at = job.created_at /\ r.started_at = job.started_at
          /\ r.cancel_requested_at = at /\ r.finished_at = now
          /\ r.result_locator = "none" /\ r.failure_code = "none"
      <4>1. job.revision + 1 \in Nat /\ now \in Times
        BY ColumnValues DEF Rows
      <4>2. QED
        BY <3>1, <3>2, <4>1, ColumnValues DEF TerminalJob, Rows
    <3>4. QED
      BY <3>3 DEF at
  <2> HIDE DEF r
  <2>2. ValidState(r)
    BY <1>2, <2>1, RowFields, SearchJobAssumption
       DEF TimeOrdered, ValidState, ValidTimes, ValidActive, ValidTerminal,
           StartBefore, Terminal, Active, None
  <2>3. QED
    BY <1>2, <2>1, <2>2 DEF r, Active, Lifecycle!Recovered
<1>3. CASE job.status \in {"queued", "running"}
  <2>1. /\ r \in Rows /\ r.status = "failed" /\ r.updated_at = now
        /\ r.created_at = job.created_at /\ r.started_at = job.started_at
        /\ r.cancel_requested_at = None /\ r.finished_at = now
        /\ r.result_locator = "none" /\ r.failure_code = "worker_restarted"
    BY <1>1, <1>3, TerminalJobFields, ColumnValues DEF RecoverJob, Active
  <2> HIDE DEF r
  <2>2. ValidState(r)
    BY <1>3, <2>1, RowFields, SearchJobAssumption
       DEF TimeOrdered, ValidState, ValidTimes, ValidActive, ValidTerminal,
           StartBefore, Terminal, Active, None
  <2>3. QED
    BY <1>3, <2>1, <2>2 DEF r, Active, Lifecycle!Recovered
<1>4. CASE job.status \notin Active
  <2>1. RecoverJob(job, now) = job
    BY <1>4 DEF RecoverJob
  <2>2. QED
    BY <2>1, <1>4 DEF Active, Lifecycle!Recovered
<1>5. QED
  BY <1>2, <1>3, <1>4 DEF Active

-----------------------------------------------------------------------------
(* The inductive invariant *)

\* Whatever refers to a job refers to a locator that was handed out.
IssuedInv ==
    /\ \A l \in Locators : rows[l] # NoRow => l \in issued
    /\ acked \subseteq issued /\ flagged \subseteq issued
    /\ \A l \in Locators : l \notin issued => starts[l] = 0
    /\ \A c \in Clients : clients[c].pc # "idle" => clients[c].loc \in issued

\* The worker holds a job in all but its two resting states, and there is no
\* worker while the process is down.
ThreadInv ==
    /\ worker.pc \notin {"idle", "stopped"} => worker.loc \in Locators
    /\ ~up => worker.pc = "idle"

\* A job that is queued, or whose callback is about to be entered, has not
\* been entered before.
EntryInv ==
    /\ \A l \in Locators : rows[l].status = "queued" => starts[l] = 0
    /\ worker.pc = "begin" => starts[worker.loc] = 0

\* A set or pending cancel event of an unfinished job stands for a committed
\* cancellation (an event may also be set just after the job has ended).
SignalInv ==
    /\ \A l \in flagged : l \in acked \/ rows[l].status \notin Active
    /\ \A c \in Clients : clients[c].pc = "signal" =>
          \/ clients[c].loc \in acked
          \/ rows[clients[c].loc].status \notin Active
    /\ worker.pc = "finish" /\ worker.outcome = "cancelled" =>
          worker.loc \in acked

CoreInv ==
    /\ TypeOK /\ IssuedInv /\ ThreadInv /\ RowsValid
    /\ CallbackOwnsActiveRow /\ RunsAtMostOnce /\ EntryInv
    /\ AckedCancelWins /\ NoSpuriousCancel /\ SignalInv

\* A job that waits in the queue, or that the worker is about to claim, was
\* neither claimed nor entered, and no job waits twice: a claim that finds
\* its row running would otherwise enter the callback again.
Untouched(l) ==
    starts[l] = 0 /\ rows[l].status \notin {"running", "cancel_requested"}

PendingInv ==
    /\ \A i \in 1..Len(queue) :
          queue[i] # Stop => queue[i] \in issued /\ Untouched(queue[i])
    /\ \A i, j \in 1..Len(queue) :
          queue[i] # Stop /\ queue[i] = queue[j] => i = j
    /\ worker.pc = "claim" => Untouched(worker.loc)
    /\ worker.pc \notin {"idle", "stopped"} =>
          /\ worker.loc \in issued
          /\ \A i \in 1..Len(queue) : queue[i] # worker.loc

IInv == CoreInv /\ PendingInv

\* The executor starts in the invariant.
LEMMA InitCore == Init => CoreInv
BY SearchJobAssumption
   DEF Init, CoreInv, TypeOK, IssuedInv, ThreadInv, RowsValid,
       CallbackOwnsActiveRow, RunsAtMostOnce, EntryInv, AckedCancelWins,
       NoSpuriousCancel, SignalInv, WorkerAt, WorkerIdle, ClientAt, ClientIdle, Outcomes,
       NoRow, Active, Terminal

-----------------------------------------------------------------------------
(* Steps that leave the table alone *)

\* GetBegin(c, l) keeps the invariant.
LEMMA GetBeginKeeps ==
    ASSUME CoreInv, NEW c \in Clients, NEW l \in Locators, GetBegin(c, l)
    PROVE  CoreInv'
BY SearchJobAssumption
   DEF CoreInv, TypeOK, IssuedInv, ThreadInv, RowsValid,
       CallbackOwnsActiveRow, RunsAtMostOnce, EntryInv, AckedCancelWins,
       NoSpuriousCancel, SignalInv, GetBegin, ClientAt

\* CancelBegin(c, l) keeps the invariant.
LEMMA CancelBeginKeeps ==
    ASSUME CoreInv, NEW c \in Clients, NEW l \in Locators, CancelBegin(c, l)
    PROVE  CoreInv'
BY SearchJobAssumption
   DEF CoreInv, TypeOK, IssuedInv, ThreadInv, RowsValid,
       CallbackOwnsActiveRow, RunsAtMostOnce, EntryInv, AckedCancelWins,
       NoSpuriousCancel, SignalInv, CancelBegin, ClientAt

\* CancelSignal(c) keeps the invariant.
LEMMA CancelSignalKeeps ==
    ASSUME CoreInv, NEW c \in Clients, CancelSignal(c)
    PROVE  CoreInv'
BY SearchJobAssumption
   DEF CoreInv, TypeOK, IssuedInv, ThreadInv, RowsValid,
       CallbackOwnsActiveRow, RunsAtMostOnce, EntryInv, AckedCancelWins,
       NoSpuriousCancel, SignalInv, CancelSignal, ClientAt, ClientIdle

\* Shutdown keeps the invariant.
LEMMA ShutdownKeeps ==
    ASSUME CoreInv, Shutdown
    PROVE  CoreInv'
<1>1. queue \in Seq(Locators \cup {Stop}) /\ queue' = Append(queue, Stop)
  BY DEF CoreInv, TypeOK, Shutdown, WithStop
<1>2. queue' \in Seq(Locators \cup {Stop})
  BY <1>1, AppendProperties
<1>3. TypeOK'
  BY <1>2 DEF CoreInv, TypeOK, Shutdown
<1>4. QED
  BY <1>3
     DEF CoreInv, IssuedInv, ThreadInv, RowsValid,
         CallbackOwnsActiveRow, RunsAtMostOnce, EntryInv, AckedCancelWins,
         NoSpuriousCancel, SignalInv, Shutdown

\* WorkerTake keeps the invariant.
LEMMA WorkerTakeKeeps ==
    ASSUME CoreInv, WorkerTake
    PROVE  CoreInv'
BY SearchJobAssumption
   DEF CoreInv, TypeOK, IssuedInv, ThreadInv, RowsValid,
       CallbackOwnsActiveRow, RunsAtMostOnce, EntryInv, AckedCancelWins,
       NoSpuriousCancel, SignalInv, WorkerTake, WorkerAt, Outcomes

\* WorkerBegin keeps the invariant.
LEMMA WorkerBeginKeeps ==
    ASSUME CoreInv, WorkerBegin
    PROVE  CoreInv'
<1>1. /\ worker.loc \in Locators
      /\ rows[worker.loc].status \in {"running", "cancel_requested"}
      /\ rows[worker.loc].started_at # None /\ starts[worker.loc] = 0
  BY DEF CoreInv, ThreadInv, CallbackOwnsActiveRow, RowsValid, EntryInv, WorkerBegin, NoRow,
         ValidState, ValidActive, ValidTerminal
<1>2. TypeOK'
  <2>1. starts' \in [Locators -> Nat]
    <3>1. starts \in [Locators -> Nat] /\ worker.loc \in Locators
      BY <1>1 DEF CoreInv, TypeOK
    <3>2. \/ starts' = starts
          \/ starts' = [starts EXCEPT ![worker.loc] = starts[worker.loc] + 1]
      BY DEF WorkerBegin
    <3>3. QED
      BY <3>1, <3>2
  <2>2. worker' \in [pc : {"idle", "claim", "begin", "run", "finish", "drop",
                          "stopped"},
                    loc : Locators \cup {Stop}, t : Nat, outcome : Outcomes]
    BY <1>1 DEF CoreInv, TypeOK, WorkerBegin, WorkerAt, Outcomes
  <2>3. QED
    BY <2>1, <2>2 DEF CoreInv, TypeOK, WorkerBegin
<1>3. /\ IssuedInv' /\ ThreadInv' /\ RowsValid' /\ CallbackOwnsActiveRow'
      /\ AckedCancelWins' /\ NoSpuriousCancel'
  BY <1>1 DEF CoreInv, TypeOK, IssuedInv, ThreadInv, RowsValid, NoRow,
         CallbackOwnsActiveRow, AckedCancelWins, NoSpuriousCancel,
         WorkerBegin, WorkerAt
<1>4. RunsAtMostOnce' /\ EntryInv'
  <2>1. \A l \in Locators : l # worker.loc => starts'[l] = starts[l]
    BY DEF CoreInv, TypeOK, WorkerBegin
  <2>2. starts'[worker.loc] \in {0, 1}
    BY <1>1 DEF CoreInv, TypeOK, WorkerBegin
  <2>3. RunsAtMostOnce'
    BY <1>1, <2>1, <2>2 DEF CoreInv, TypeOK, RunsAtMostOnce, WorkerBegin
  <2>4. EntryInv'
    BY <1>1, <2>1 DEF CoreInv, EntryInv, WorkerBegin, WorkerAt
  <2>5. QED
    BY <2>3, <2>4
<1>5. SignalInv'
  BY <1>1 DEF CoreInv, TypeOK, SignalInv, WorkerBegin, WorkerAt, Active
<1>6. QED
  BY <1>2, <1>3, <1>4, <1>5 DEF CoreInv

\* RunnerEnds(outcome) keeps the invariant.
LEMMA RunnerEndsKeeps ==
    ASSUME CoreInv, NEW outcome \in Outcomes, RunnerEnds(outcome)
    PROVE  CoreInv'
<1>1. /\ worker.loc \in Locators
      /\ rows[worker.loc].status \in {"running", "cancel_requested"}
  BY DEF CoreInv, ThreadInv, CallbackOwnsActiveRow, RunnerEnds
<1>2. TypeOK'
  BY <1>1 DEF CoreInv, TypeOK, RunnerEnds, WorkerAt
<1>3. /\ IssuedInv' /\ ThreadInv' /\ RowsValid' /\ CallbackOwnsActiveRow'
      /\ AckedCancelWins' /\ NoSpuriousCancel' /\ RunsAtMostOnce' /\ EntryInv'
  BY <1>1 DEF CoreInv, IssuedInv, ThreadInv, RowsValid, RunsAtMostOnce, EntryInv,
         CallbackOwnsActiveRow, AckedCancelWins, NoSpuriousCancel,
         RunnerEnds, WorkerAt
<1>4. SignalInv'
  BY <1>1 DEF CoreInv, TypeOK, SignalInv, RunnerEnds, WorkerAt, Active
<1>5. QED
  BY <1>2, <1>3, <1>4 DEF CoreInv

\* WorkerDrop keeps the invariant.
LEMMA WorkerDropKeeps ==
    ASSUME CoreInv, WorkerDrop
    PROVE  CoreInv'
BY SearchJobAssumption
   DEF CoreInv, TypeOK, IssuedInv, ThreadInv, RowsValid,
       CallbackOwnsActiveRow, RunsAtMostOnce, EntryInv, AckedCancelWins,
       NoSpuriousCancel, SignalInv, WorkerDrop, WorkerAt, WorkerIdle, Outcomes

\* Tick keeps the invariant.
LEMMA TickKeeps ==
    ASSUME CoreInv, Tick
    PROVE  CoreInv'
BY SearchJobAssumption
   DEF CoreInv, TypeOK, IssuedInv, ThreadInv, RowsValid,
       CallbackOwnsActiveRow, RunsAtMostOnce, EntryInv, AckedCancelWins,
       NoSpuriousCancel, SignalInv, Tick

\* Regress keeps the invariant.
LEMMA RegressKeeps ==
    ASSUME CoreInv, Regress
    PROVE  CoreInv'
BY SearchJobAssumption
   DEF CoreInv, TypeOK, IssuedInv, ThreadInv, RowsValid,
       CallbackOwnsActiveRow, RunsAtMostOnce, EntryInv, AckedCancelWins,
       NoSpuriousCancel, SignalInv, Regress

\* Exit keeps the invariant.
LEMMA ExitKeeps ==
    ASSUME CoreInv, Exit
    PROVE  CoreInv'
<1>1. TypeOK'
  <2>1. queue' \in Seq(Locators \cup {Stop}) /\ exits' \in Nat
    BY DEF CoreInv, TypeOK, Exit
  <2>2. worker' \in [pc : {"idle", "claim", "begin", "run", "finish", "drop",
                          "stopped"},
                    loc : Locators \cup {Stop}, t : Nat, outcome : Outcomes]
    BY DEF Exit, WorkerAt, WorkerIdle, Outcomes
  <2>3. clients' \in [Clients -> [pc : {"idle", "get", "cancel", "signal"},
                                  loc : Locators \cup {Stop}, t : Nat]]
    BY DEF Exit, ClientAt, ClientIdle
  <2>4. QED
    BY <2>1, <2>2, <2>3 DEF CoreInv, TypeOK, Exit
<1>2. QED
  BY <1>1
     DEF CoreInv, IssuedInv, ThreadInv, RowsValid,
         CallbackOwnsActiveRow, RunsAtMostOnce, EntryInv, AckedCancelWins,
         NoSpuriousCancel, SignalInv,
         TypeOK, Exit, WorkerAt, WorkerIdle, ClientAt, ClientIdle

-----------------------------------------------------------------------------
(* Steps that write the table *)

\* submit() writes a row for a locator nobody knows yet.
LEMMA SubmitKeeps ==
    ASSUME CoreInv, NEW b \in Bindings, Submit(b)
    PROVE  CoreInv'
<1>1. CASE UNCHANGED <<rows, issued, events, queue, unstored>>
  BY <1>1
     DEF CoreInv, TypeOK, IssuedInv, ThreadInv, RowsValid, CallbackOwnsActiveRow,
         RunsAtMostOnce, EntryInv, AckedCancelWins, NoSpuriousCancel,
         SignalInv, Submit
<1>2. CASE \E l \in Locators \ issued :
             /\ rows' = [rows EXCEPT ![l] = NewQueuedJob(b, clock)]
             /\ issued' = issued \cup {l}
             /\ events' = events \/ events' = events \cup {l}
             /\ queue' = queue \/ queue' = Append(queue, l)
             /\ unstored' = unstored \/ unstored' = unstored \cup {l}
  <2>1. PICK l \in Locators \ issued :
             /\ rows' = [rows EXCEPT ![l] = NewQueuedJob(b, clock)]
             /\ issued' = issued \cup {l}
             /\ events' = events \/ events' = events \cup {l}
             /\ queue' = queue \/ queue' = Append(queue, l)
             /\ unstored' = unstored \/ unstored' = unstored \cup {l}
    BY <1>2
  <2> DEFINE r == NewQueuedJob(b, clock)
  <2>2. r \in Rows /\ ValidState(r) /\ r.status = "queued"
    BY NewQueuedJobFacts DEF CoreInv, TypeOK
  <2> HIDE DEF r
  <2>3. /\ rows' \in [Locators -> Rows \cup {NoRow}] /\ rows'[l] = r
        /\ \A m \in Locators : m # l => rows'[m] = rows[m]
        /\ rows[l] = NoRow /\ rows[l].status = "absent"
    BY <2>1, <2>2 DEF CoreInv, TypeOK, IssuedInv, NoRow, r
  <2>4. TypeOK'
    <3>1. /\ queue \in Seq(Locators \cup {Stop})
          /\ l \in Locators \cup {Stop}
      BY DEF CoreInv, TypeOK
    <3>2. Append(queue, l) \in Seq(Locators \cup {Stop})
      BY <3>1, AppendProperties
    <3>3. QED
      BY <3>1, <3>2, <2>1, <2>3 DEF CoreInv, TypeOK, Submit
  <2>5. /\ l \notin acked /\ l \notin flagged /\ starts[l] = 0
        /\ worker.pc \in {"begin", "run", "finish"} => worker.loc # l
        /\ \A c \in Clients : clients[c].pc # "idle" => clients[c].loc # l
    BY <2>1, <2>3 DEF CoreInv, IssuedInv, CallbackOwnsActiveRow
  <2>6. IssuedInv' /\ ThreadInv'
    BY <2>1, <2>3 DEF CoreInv, IssuedInv, ThreadInv, Submit
  <2>7. RowsValid' /\ CallbackOwnsActiveRow'
    BY <2>2, <2>3, <2>5
       DEF CoreInv, ThreadInv, RowsValid, CallbackOwnsActiveRow, Submit
  <2>8. RunsAtMostOnce' /\ EntryInv'
    BY <2>2, <2>3, <2>5 DEF CoreInv, RunsAtMostOnce, EntryInv, Submit
  <2>9. AckedCancelWins' /\ NoSpuriousCancel'
    BY <2>2, <2>3, <2>5
       DEF CoreInv, TypeOK, AckedCancelWins, NoSpuriousCancel, Submit
  <2>10. SignalInv'
    BY <2>2, <2>3, <2>5 DEF CoreInv, TypeOK, IssuedInv, SignalInv, Submit
  <2>11. QED
    BY <2>4, <2>6, <2>7, <2>8, <2>9, <2>10 DEF CoreInv
<1>3. QED
  BY <1>1, <1>2 DEF Submit

\* Where one existing row is rewritten by a transaction that keeps it valid,
\* only the facts about that row are at stake.
LEMMA RowRewrite ==
    ASSUME CoreInv, NEW l \in Locators, rows[l] # NoRow, NEW r \in Rows,
           rows' = [rows EXCEPT ![l] = r]
    PROVE  /\ rows[l] \in Rows /\ ValidState(rows[l]) /\ l \in issued
           /\ rows' \in [Locators -> Rows \cup {NoRow}] /\ rows'[l] = r
           /\ r # NoRow
           /\ \A m \in Locators : m # l => rows'[m] = rows[m]
BY RowFields DEF CoreInv, TypeOK, RowsValid, IssuedInv

\* Cancel events stay backed by a cancellation, or belong to a finished job,
\* where none is set, no job comes back to life and no acknowledgement is lost.
LEMMA SignalKeeps ==
    ASSUME CoreInv, UNCHANGED <<flagged, worker>>, acked \subseteq acked',
           \A m \in Locators : rows[m].status \notin Active => rows'[m].status \notin Active,
           \A d \in Clients :
               \/ clients'[d] = clients[d] \/ clients'[d].pc # "signal"
               \/ clients'[d].loc \in acked' \/ rows'[clients'[d].loc].status \notin Active
    PROVE  SignalInv'
<1>1. \A m \in flagged' : m \in acked' \/ rows'[m].status \notin Active
  <2>1. flagged \subseteq Locators
    BY DEF CoreInv, TypeOK
  <2> QED BY <2>1 DEF CoreInv, SignalInv
<1>2. ASSUME NEW d \in Clients, clients'[d].pc = "signal"
      PROVE  clients'[d].loc \in acked' \/ rows'[clients'[d].loc].status \notin Active
  <2>1. CASE clients'[d] = clients[d]
    <3>1. clients[d].loc \in Locators
      BY <1>2, <2>1 DEF CoreInv, TypeOK, IssuedInv
    <3>2. clients[d].loc \in acked \/ rows[clients[d].loc].status \notin Active
      BY <1>2, <2>1 DEF CoreInv, SignalInv
    <3> QED BY <2>1, <3>1, <3>2
  <2> QED BY <1>2, <2>1
<1>3. worker'.pc = "finish" /\ worker'.outcome = "cancelled" => worker'.loc \in acked'
  BY DEF CoreInv, SignalInv
<1> QED BY <1>1, <1>2, <1>3 DEF SignalInv

\* get() touches a row only to time out a queued job.
LEMMA GetTxnKeeps ==
    ASSUME CoreInv, NEW c \in Clients, GetTxn(c)
    PROVE  CoreInv'
<1> DEFINE l == clients[c].loc
           t == clients[c].t
<1>1. l \in Locators /\ t \in Nat
  BY DEF CoreInv, TypeOK, IssuedInv, GetTxn
<1>2. clients' = [clients EXCEPT ![c] = ClientIdle]
  BY DEF GetTxn
<1>3. /\ clients' \in [Clients -> [pc : {"idle", "get", "cancel", "signal"},
                                   loc : Locators \cup {Stop}, t : Nat]]
      /\ \A d \in Clients : clients'[d].pc # "idle" => clients'[d] = clients[d]
  BY <1>2 DEF CoreInv, TypeOK, ClientIdle, ClientAt
<1>4. CASE rows' = rows
  BY <1>3, <1>4
     DEF CoreInv, TypeOK, IssuedInv, ThreadInv, RowsValid, CallbackOwnsActiveRow,
         RunsAtMostOnce, EntryInv, AckedCancelWins, NoSpuriousCancel,
         SignalInv, GetTxn
<1>5. CASE rows' # rows
  <2> DEFINE r == GetJob(rows[l], t)
  <2>1. rows[l] # NoRow /\ TimeOrdered(rows[l], t) /\ rows' = [rows EXCEPT ![l] = r]
    BY <1>5 DEF GetTxn, StorageError, GetReply
  <2>2. rows[l] \in Rows /\ ValidState(rows[l])
    BY <1>1, <2>1 DEF CoreInv, TypeOK, RowsValid
  <2>3. /\ r \in Rows /\ ValidState(r)
        /\ r = rows[l] \/ (rows[l].status = "queued" /\ r.status = "timed_out")
    BY <1>1, <2>1, <2>2, GetJobFacts
  <2> HIDE DEF r
  <2>4. rows[l].status = "queued" /\ r.status = "timed_out"
    BY <1>1, <1>5, <2>1, <2>3 DEF CoreInv, TypeOK
  <2> HIDE DEF l
  <2>5. /\ l \in issued /\ rows' \in [Locators -> Rows \cup {NoRow}]
        /\ rows'[l] = r /\ r # NoRow
        /\ \A m \in Locators : m # l => rows'[m] = rows[m]
    BY <1>1, <2>1, <2>3, RowRewrite
  <2>6. starts[l] = 0 /\ l \notin acked
    BY <1>1, <2>4 DEF CoreInv, EntryInv, AckedCancelWins
  <2>7. TypeOK'
    BY <1>3, <2>5 DEF CoreInv, TypeOK, GetTxn
  <2>8. IssuedInv' /\ ThreadInv'
    BY <1>3, <2>1, <2>5 DEF CoreInv, IssuedInv, ThreadInv, GetTxn
  <2>9. RowsValid' /\ CallbackOwnsActiveRow'
    BY <2>3, <2>4, <2>5
       DEF CoreInv, ThreadInv, RowsValid, CallbackOwnsActiveRow, GetTxn
  <2>10. RunsAtMostOnce' /\ EntryInv'
    BY <2>4, <2>5, <2>6 DEF CoreInv, RunsAtMostOnce, EntryInv, GetTxn
  <2>11. AckedCancelWins' /\ NoSpuriousCancel'
    BY <2>4, <2>5, <2>6
       DEF CoreInv, TypeOK, AckedCancelWins, NoSpuriousCancel, GetTxn
  <2>12. SignalInv'
    <3>1. \A m \in Locators : rows[m].status \notin Active => rows'[m].status \notin Active
      BY <2>4, <2>5 DEF Active
    <3>2. \A d \in Clients : clients'[d] = clients[d] \/ clients'[d].pc # "signal"
      BY <1>3
    <3>3. UNCHANGED <<flagged, worker, acked>>
      BY DEF GetTxn
    <3> QED BY <3>1, <3>2, <3>3, SignalKeeps
  <2>13. QED
    BY <2>7, <2>8, <2>9, <2>10, <2>11, <2>12 DEF CoreInv
<1>6. QED
  BY <1>4, <1>5

\* request_cancel either is refused or leaves the row cancelled,
\* cancel_requested or as it ended, and acknowledges the first two.
LEMMA CancelTxnKeeps ==
    ASSUME CoreInv, NEW c \in Clients, CancelTxn(c)
    PROVE  CoreInv'
<1> DEFINE l == clients[c].loc
           t == clients[c].t
<1>1. l \in Locators /\ t \in Nat /\ l \in issued
  BY DEF CoreInv, TypeOK, IssuedInv, CancelTxn
<1>2. CASE /\ rows' = rows /\ acked' = acked
           /\ clients' = [clients EXCEPT ![c] = ClientIdle]
  <2>2. /\ clients' \in [Clients -> [pc : {"idle", "get", "cancel", "signal"},
                                     loc : Locators \cup {Stop}, t : Nat]]
        /\ \A d \in Clients : clients'[d].pc # "idle" => clients'[d] = clients[d]
    BY <1>2 DEF CoreInv, TypeOK, ClientIdle, ClientAt
  <2>3. QED
    BY <1>2, <2>2
       DEF CoreInv, TypeOK, IssuedInv, ThreadInv, RowsValid,
           CallbackOwnsActiveRow, RunsAtMostOnce, EntryInv, AckedCancelWins,
           NoSpuriousCancel, SignalInv, CancelTxn
<1>3. CASE Readable(l, t) /\ rows' = [rows EXCEPT ![l] = CancelJob(rows[l], t)]
  <2> DEFINE r == CancelJob(rows[l], t)
  <2>1. /\ rows[l] # NoRow /\ TimeOrdered(rows[l], t)
        /\ rows' = [rows EXCEPT ![l] = r]
        /\ \/ clients' = [clients EXCEPT ![c] = ClientAt("signal", l, 0)]
           \/ clients' = [clients EXCEPT ![c] = ClientIdle]
        /\ acked' = IF r.status \in {"cancel_requested", "cancelled"}
                    THEN acked \cup {l} ELSE acked
    <3>1. rows[l] # NoRow /\ TimeOrdered(rows[l], t) /\ rows'[l] = r
      BY <1>1, <1>3 DEF Readable, CoreInv, TypeOK
    <3>2. QED
      BY <1>3, <3>1 DEF CancelTxn
  <2>2. rows[l] \in Rows /\ ValidState(rows[l]) /\ rows[l].status \in Statuses
    BY <1>1, <2>1, RowFields DEF CoreInv, TypeOK, RowsValid
  <2>3. /\ r \in Rows /\ ValidState(r) /\ r.started_at = rows[l].started_at
        /\ rows[l].status = "queued" => r.status = "cancelled"
        /\ rows[l].status = "running" => r.status = "cancel_requested"
        /\ rows[l].status \notin {"queued", "running"} => r = rows[l]
    BY <1>1, <2>1, <2>2, CancelJobFacts
  <2> HIDE DEF r, l
  <2>4. /\ r.status \in {"cancel_requested", "cancelled"} \/ r.status \notin Active
        /\ r.status # "queued"
    BY <2>2, <2>3 DEF Statuses, Active, Terminal
  <2>5. /\ rows' \in [Locators -> Rows \cup {NoRow}]
        /\ rows'[l] = r /\ r # NoRow
        /\ \A m \in Locators : m # l => rows'[m] = rows[m]
    BY <1>1, <2>1, <2>3, RowRewrite
  <2>6. /\ clients' \in [Clients -> [pc : {"idle", "get", "cancel", "signal"},
                                     loc : Locators \cup {Stop}, t : Nat]]
        /\ \A d \in Clients :
             \/ clients'[d] = clients[d] \/ clients'[d].pc = "idle"
             \/ clients'[d].pc = "signal" /\ clients'[d].loc = l
    <3>1. CASE clients' = [clients EXCEPT ![c] = ClientAt("signal", l, 0)]
      BY <1>1, <3>1 DEF CoreInv, TypeOK, ClientAt
    <3>2. CASE clients' = [clients EXCEPT ![c] = ClientIdle]
      BY <3>2 DEF CoreInv, TypeOK, ClientAt, ClientIdle
    <3>3. QED
      BY <2>1, <3>1, <3>2
  <2>7. TypeOK'
    BY <1>1, <2>1, <2>5, <2>6 DEF CoreInv, TypeOK, CancelTxn
  <2>8. IssuedInv' /\ ThreadInv'
    BY <1>1, <2>1, <2>5, <2>6 DEF CoreInv, TypeOK, IssuedInv, ThreadInv, CancelTxn
  <2>9. RowsValid' /\ CallbackOwnsActiveRow'
    BY <2>3, <2>5
       DEF CoreInv, ThreadInv, RowsValid, CallbackOwnsActiveRow, CancelTxn
  <2>10. RunsAtMostOnce' /\ EntryInv'
    BY <2>1, <2>3, <2>4, <2>5 DEF CoreInv, RunsAtMostOnce, EntryInv, CancelTxn
  <2>11. AckedCancelWins' /\ NoSpuriousCancel'
    BY <1>1, <2>1, <2>3, <2>5
       DEF CoreInv, TypeOK, AckedCancelWins, NoSpuriousCancel, CancelTxn
  <2>12. SignalInv'
    <3>1. /\ l \in acked' \/ rows'[l].status \notin Active
          /\ acked \subseteq acked'
          /\ \A m \in Locators : rows[m].status \notin Active =>
                                   rows'[m].status \notin Active
      BY <2>1, <2>3, <2>4, <2>5 DEF Active
    <3>2. \A d \in Clients :
            \/ clients'[d] = clients[d] \/ clients'[d].pc # "signal"
            \/ clients'[d].loc \in acked' \/ rows'[clients'[d].loc].status \notin Active
      BY <2>6, <3>1
    <3>3. UNCHANGED <<flagged, worker>>
      BY DEF CancelTxn
    <3> QED BY <3>1, <3>2, <3>3, SignalKeeps
  <2>13. QED
    BY <2>7, <2>8, <2>9, <2>10, <2>11, <2>12 DEF CoreInv
<1>4. QED
  <2>1. CASE /\ rows' = rows /\ clients' = [clients EXCEPT ![c] = ClientIdle]
             /\ acked' = IF rows'[l].status \in {"cancel_requested", "cancelled"}
                         THEN acked \cup {l} ELSE acked
    <3>1. acked' = acked
      BY <1>1, <2>1 DEF CoreInv, NoSpuriousCancel
    <3>2. QED
      BY <1>2, <2>1, <3>1
  <2>2. QED
    BY <1>2, <1>3, <2>1 DEF CancelTxn, StorageError

\* claim_for_execution hands a job to the worker only out of queued.
LEMMA WorkerClaimKeeps ==
    ASSUME CoreInv, PendingInv, WorkerClaim
    PROVE  CoreInv'
<1> DEFINE l == worker.loc
           t == worker.t
<1>1. /\ l \in Locators /\ t \in Nat
      /\ starts[l] = 0 /\ rows[l].status \notin {"running", "cancel_requested"}
  BY DEF CoreInv, TypeOK, ThreadInv, PendingInv, Untouched, WorkerClaim
<1>2. CASE rows' = rows /\ worker' = WorkerAt("drop", l, 0, "success")
  <2>1. TypeOK'
    BY <1>1, <1>2 DEF CoreInv, TypeOK, WorkerClaim, WorkerAt, Outcomes
  <2>2. QED
    BY <1>1, <1>2, <2>1
       DEF CoreInv, IssuedInv, ThreadInv, RowsValid, CallbackOwnsActiveRow,
           RunsAtMostOnce, EntryInv, AckedCancelWins, NoSpuriousCancel,
           SignalInv, WorkerClaim, WorkerAt
<1>3. CASE Readable(l, t) /\ rows' = [rows EXCEPT ![l] = ClaimJob(rows[l], t)]
  <2> DEFINE r == ClaimJob(rows[l], t)
  <2>1. /\ rows[l] # NoRow /\ TimeOrdered(rows[l], t)
        /\ rows' = [rows EXCEPT ![l] = r]
        /\ \/ worker' = WorkerAt("drop", l, 0, "success")
           \/ worker' = WorkerAt(IF r.status = "running" THEN "begin" ELSE "drop",
                                 l, 0, "success")
    BY <1>3 DEF WorkerClaim, AfterClaim, Readable
  <2>2. rows[l] \in Rows /\ ValidState(rows[l])
    BY <1>1, <2>1 DEF CoreInv, TypeOK, RowsValid
  <2>3. /\ r \in Rows /\ ValidState(r)
        /\ rows[l].status # "queued" => r = rows[l]
        /\ rows[l].status = "queued" => r.status \in {"running", "timed_out"}
    BY <1>1, <2>1, <2>2, ClaimJobFacts
  <2> HIDE DEF r
  <2>4. /\ l \in issued /\ rows' \in [Locators -> Rows \cup {NoRow}]
        /\ rows'[l] = r /\ r # NoRow
        /\ \A m \in Locators : m # l => rows'[m] = rows[m]
    BY <1>1, <2>1, <2>3, RowRewrite
  <2>5. /\ worker'.loc = l /\ worker'.pc \in {"begin", "drop"}
        /\ worker'.pc = "begin" => r.status = "running"
        /\ worker' \in [pc : {"idle", "claim", "begin", "run", "finish", "drop",
                           "stopped"},
                     loc : Locators \cup {Stop}, t : Nat, outcome : Outcomes]
    BY <1>1, <2>1 DEF WorkerAt, Outcomes
  <2>0. unstored' \subseteq Locators
    BY <1>1 DEF CoreInv, TypeOK, WorkerClaim
  <2>6. /\ rows[l].status = "queued" => l \notin acked
        /\ r.status = rows[l].status \/ rows[l].status = "queued"
    BY <1>1, <2>3 DEF CoreInv, AckedCancelWins
  <2> HIDE DEF l
  <2>7. TypeOK'
    BY <2>0, <2>4, <2>5 DEF CoreInv, TypeOK, WorkerClaim
  <2>8. IssuedInv' /\ ThreadInv'
    BY <1>1, <2>1, <2>4, <2>5 DEF CoreInv, IssuedInv, ThreadInv, WorkerClaim
  <2>9. RowsValid' /\ CallbackOwnsActiveRow'
    BY <1>1, <2>3, <2>4, <2>5
       DEF CoreInv, RowsValid, CallbackOwnsActiveRow, WorkerClaim
  <2>10. RunsAtMostOnce' /\ EntryInv'
    BY <1>1, <2>4, <2>5 DEF CoreInv, RunsAtMostOnce, EntryInv, WorkerClaim
  <2>11. AckedCancelWins' /\ NoSpuriousCancel'
    BY <1>1, <2>3, <2>4, <2>6
       DEF CoreInv, TypeOK, AckedCancelWins, NoSpuriousCancel, WorkerClaim
  <2>12. SignalInv'
    <3>1. \A m \in Locators : rows[m].status \notin Active =>
                               rows'[m].status \notin Active
      BY <2>3, <2>4 DEF Active
    <3>2. QED
      BY <2>5, <3>1 DEF CoreInv, TypeOK, IssuedInv, SignalInv, WorkerClaim
  <2>13. QED
    BY <2>7, <2>8, <2>9, <2>10, <2>11, <2>12 DEF CoreInv
<1>4. QED
  BY <1>2, <1>3 DEF WorkerClaim, StorageError

\* _finish either is refused or ends the job; cancellation wins.
LEMMA WorkerFinishKeeps ==
    ASSUME CoreInv, WorkerFinish
    PROVE  CoreInv'
<1> DEFINE l == worker.loc
           t == worker.t
<1>1. /\ l \in Locators /\ t \in Nat /\ worker.outcome \in Outcomes
      /\ rows[l].status \in {"running", "cancel_requested"}
  BY DEF CoreInv, TypeOK, ThreadInv, CallbackOwnsActiveRow, WorkerFinish
<1>2. /\ worker'.loc = l /\ worker'.pc = "drop"
      /\ worker' \in [pc : {"idle", "claim", "begin", "run", "finish", "drop",
                           "stopped"},
                     loc : Locators \cup {Stop}, t : Nat, outcome : Outcomes]
  BY <1>1 DEF WorkerFinish, WorkerAt, Outcomes
<1>3. CASE rows' = rows
  <2>1. TypeOK'
    BY <1>1, <1>2, <1>3 DEF CoreInv, TypeOK, WorkerFinish
  <2>2. QED
    BY <1>1, <1>2, <1>3, <2>1
       DEF CoreInv, IssuedInv, ThreadInv, RowsValid, CallbackOwnsActiveRow,
           RunsAtMostOnce, EntryInv, AckedCancelWins, NoSpuriousCancel,
           SignalInv, WorkerFinish
<1>4. CASE /\ Readable(l, t)
           /\ rows' = [rows EXCEPT ![l] = FinishJob(rows[l], worker.outcome, t)]
  <2> DEFINE r == FinishJob(rows[l], worker.outcome, t)
  <2>1. /\ rows[l] # NoRow /\ TimeOrdered(rows[l], t)
        /\ rows' = [rows EXCEPT ![l] = r]
    BY <1>4 DEF Readable
  <2>2. rows[l] \in Rows /\ ValidState(rows[l])
    BY <1>1, <2>1 DEF CoreInv, TypeOK, RowsValid
  <2>3. /\ r \in Rows /\ ValidState(r) /\ r.started_at = rows[l].started_at
        /\ r.status = IF worker.outcome = "cancelled"
                          \/ rows[l].status = "cancel_requested"
                      THEN "cancelled"
                      ELSE IF worker.outcome = "success"
                           THEN "succeeded" ELSE "failed"
    BY <1>1, <2>1, <2>2, FinishJobFacts
  <2> HIDE DEF r
  <2>4. /\ l \in issued /\ rows' \in [Locators -> Rows \cup {NoRow}]
        /\ rows'[l] = r /\ r # NoRow
        /\ \A m \in Locators : m # l => rows'[m] = rows[m]
    BY <1>1, <2>1, <2>3, RowRewrite
  <2>5. /\ l \in acked => r.status = "cancelled"
        /\ r.status = "cancelled" => l \in acked
        /\ r.status \in {"succeeded", "failed", "cancelled"}
    BY <1>1, <2>3
       DEF CoreInv, AckedCancelWins, NoSpuriousCancel, SignalInv, WorkerFinish
  <2>0. unstored' \subseteq Locators
    BY <1>1 DEF CoreInv, TypeOK, WorkerFinish
  <2> HIDE DEF l
  <2>6. TypeOK'
    BY <1>2, <2>0, <2>4 DEF CoreInv, TypeOK, WorkerFinish
  <2>7. IssuedInv' /\ ThreadInv'
    BY <1>1, <1>2, <2>4 DEF CoreInv, IssuedInv, ThreadInv, WorkerFinish
  <2>8. RowsValid' /\ CallbackOwnsActiveRow'
    BY <1>2, <2>3, <2>4 DEF CoreInv, RowsValid, CallbackOwnsActiveRow, WorkerFinish
  <2>9. RunsAtMostOnce' /\ EntryInv'
    BY <1>2, <2>1, <2>3, <2>4, <2>5
       DEF CoreInv, RunsAtMostOnce, EntryInv, WorkerFinish
  <2>10. AckedCancelWins' /\ NoSpuriousCancel'
    BY <1>1, <2>4, <2>5
       DEF CoreInv, TypeOK, AckedCancelWins, NoSpuriousCancel, WorkerFinish
  <2>11. SignalInv'
    <3>1. \A m \in Locators : rows[m].status \notin Active =>
                               rows'[m].status \notin Active
      BY <2>4, <2>5 DEF Active
    <3>2. QED
      BY <1>2, <3>1 DEF CoreInv, TypeOK, IssuedInv, SignalInv, WorkerFinish
  <2>12. QED
    BY <2>6, <2>7, <2>8, <2>9, <2>10, <2>11 DEF CoreInv
<1>5. QED
  BY <1>3, <1>4 DEF WorkerFinish, StorageError

\* purge_expired deletes terminal rows only.
LEMMA PurgeKeeps ==
    ASSUME CoreInv, Purge
    PROVE  CoreInv'
<1>1. /\ rows' \in [Locators -> Rows \cup {NoRow}]
      /\ \A l \in Locators :
            \/ rows'[l] = rows[l]
            \/ rows'[l] = NoRow /\ rows[l].status \in Terminal
  BY DEF CoreInv, TypeOK, Purge, PurgeDue
<1>2. \A l \in Locators :
        /\ rows[l].status \in Active => rows'[l] = rows[l]
        /\ rows'[l] # NoRow => rows'[l] = rows[l]
        /\ rows'[l].status = rows[l].status \/ rows'[l].status = "absent"
  BY <1>1 DEF Active, Terminal, NoRow
<1>3. TypeOK'
  BY <1>1 DEF CoreInv, TypeOK, Purge
<1>4. IssuedInv' /\ ThreadInv' /\ RowsValid'
  BY <1>2 DEF CoreInv, IssuedInv, ThreadInv, RowsValid, Purge
<1>5. CallbackOwnsActiveRow'
  BY <1>2 DEF CoreInv, ThreadInv, CallbackOwnsActiveRow, Purge, Active
<1>6. RunsAtMostOnce' /\ EntryInv'
  BY <1>2 DEF CoreInv, RunsAtMostOnce, EntryInv, Purge
<1>7. AckedCancelWins' /\ NoSpuriousCancel'
  BY <1>2 DEF CoreInv, TypeOK, AckedCancelWins, NoSpuriousCancel, Purge
<1>8. SignalInv'
  BY <1>2 DEF CoreInv, TypeOK, IssuedInv, SignalInv, Purge, Active
<1>9. QED
  BY <1>3, <1>4, <1>5, <1>6, <1>7, <1>8 DEF CoreInv

\* recover_interrupted settles every active row while no worker exists.
LEMMA RestartKeeps ==
    ASSUME CoreInv, Restart
    PROVE  CoreInv'
<1>1. \A l \in Locators :
        \/ rows[l] = NoRow /\ rows'[l] = NoRow
        \/ /\ rows[l] \in Rows /\ rows'[l] \in Rows /\ ValidState(rows'[l])
           /\ rows'[l].started_at = rows[l].started_at
           /\ rows'[l].status = Lifecycle!Recovered(rows[l].status)
           /\ rows[l].status \in Statuses
  <2>1. SUFFICES ASSUME NEW l \in Locators
                 PROVE  \/ rows[l] = NoRow /\ rows'[l] = NoRow
                        \/ /\ rows[l] \in Rows /\ rows'[l] \in Rows
                           /\ ValidState(rows'[l])
                           /\ rows'[l].started_at = rows[l].started_at
                           /\ rows'[l].status =
                                Lifecycle!Recovered(rows[l].status)
                           /\ rows[l].status \in Statuses
    OBVIOUS
  <2>2. rows'[l] = RecoverJob(rows[l], clock) /\ clock \in Nat
    BY DEF CoreInv, TypeOK, Restart
  <2>3. CASE rows[l] = NoRow
    BY <2>2, <2>3 DEF RecoverJob, NoRow, Active
  <2>4. CASE rows[l] # NoRow
    <3>1. /\ rows[l] \in Rows /\ ValidState(rows[l])
          /\ rows[l].status \in Active => TimeOrdered(rows[l], clock)
      BY <2>4 DEF CoreInv, TypeOK, RowsValid, Restart
    <3>2. QED
      BY <2>2, <3>1, RecoverJobFacts, RowFields
  <2>5. QED
    BY <2>3, <2>4
<1>2. \A l \in Locators :
        /\ rows'[l].status \notin Active
        /\ rows[l].status = "cancelled" \/ rows[l].status = "cancel_requested"
             <=> rows'[l].status = "cancelled"
        /\ rows[l] = NoRow <=> rows'[l] = NoRow
  BY <1>1, RowFields
     DEF Lifecycle!Recovered, Statuses, Active, Terminal, NoRow
<1>3. rows' \in [Locators -> Rows \cup {NoRow}]
  BY <1>1 DEF Restart
<1>4. TypeOK'
  BY <1>3 DEF CoreInv, TypeOK, Restart
<1>5. IssuedInv' /\ ThreadInv' /\ RowsValid'
  BY <1>1, <1>2 DEF CoreInv, IssuedInv, ThreadInv, RowsValid, Restart
<1>6. CallbackOwnsActiveRow'
  BY DEF CoreInv, ThreadInv, CallbackOwnsActiveRow, Restart
<1>7. RunsAtMostOnce' /\ EntryInv'
  BY <1>1, <1>2
     DEF CoreInv, ThreadInv, RunsAtMostOnce, EntryInv, Restart, Active, NoRow
<1>8. AckedCancelWins' /\ NoSpuriousCancel'
  <2>1. \A l \in Locators :
          /\ rows[l].status \in {"cancel_requested", "cancelled"} <=>
               rows'[l].status \in {"cancel_requested", "cancelled"}
          /\ rows[l].status = "absent" => rows'[l].status = "absent"
    BY <1>1, <1>2 DEF Active, Statuses, Terminal, NoRow
  <2>2. QED
    BY <2>1 DEF CoreInv, TypeOK, AckedCancelWins, NoSpuriousCancel, Restart
<1>9. SignalInv'
  BY <1>2 DEF CoreInv, TypeOK, ThreadInv, IssuedInv, SignalInv, Restart
<1>10. QED
  BY <1>4, <1>5, <1>6, <1>7, <1>8, <1>9 DEF CoreInv

-----------------------------------------------------------------------------
(* Steps and the queue *)

\* Steps that move neither the queue nor the worker, and that make no row
\* running, keep the queue facts.
LEMMA PendingFrame ==
    ASSUME CoreInv, PendingInv,
           queue' = queue, worker' = worker, issued \subseteq issued',
           starts' = starts,
           \A l \in Locators :
              rows'[l].status \in {"running", "cancel_requested"} =>
              rows[l].status \in {"running", "cancel_requested"}
    PROVE  PendingInv'
<1>1. \A l \in Locators : Untouched(l) => Untouched(l)'
  BY DEF Untouched
<1>2. \A i \in 1..Len(queue) : queue[i] # Stop => queue[i] \in Locators
  BY DEF CoreInv, TypeOK
<1>3. worker.pc = "claim" => worker.loc \in Locators
  BY DEF CoreInv, ThreadInv
<1>4. QED
  BY <1>1, <1>2, <1>3 DEF PendingInv

\* Steps of the worker that hold on to the same job, or put it down, and do
\* not turn back to the claim keep the queue facts.
LEMMA PendingWorker ==
    ASSUME CoreInv, PendingInv, worker.pc \notin {"idle", "stopped"},
           queue' = queue, issued' = issued, worker'.pc # "claim",
           worker'.loc = worker.loc \/ worker'.pc = "idle",
           \A l \in Locators : l # worker.loc =>
              starts'[l] = starts[l] /\ rows'[l] = rows[l]
    PROVE  PendingInv'
<1>1. \A l \in Locators : l # worker.loc /\ Untouched(l) => Untouched(l)'
  BY DEF Untouched
<1>2. \A i \in 1..Len(queue) : queue[i] # Stop => queue[i] \in Locators
  BY DEF CoreInv, TypeOK
<1>3. QED
  BY <1>1, <1>2 DEF PendingInv

\* get() writes no other status than timed_out.
LEMMA GetTxnRows ==
    ASSUME CoreInv, NEW c \in Clients, GetTxn(c), clients[c].loc \in Locators
    PROVE  \A m \in Locators :
              rows'[m] = rows[m] \/ rows'[m].status = "timed_out"
<1> DEFINE l == clients[c].loc
           t == clients[c].t
<1>1. CASE rows' = rows
  BY <1>1
<1>2. CASE rows[l] # NoRow /\ rows' = [rows EXCEPT ![l] = GetJob(rows[l], t)]
  <2>1. rows[l] \in Rows
    BY <1>2 DEF CoreInv, TypeOK
  <2>2. GetJob(rows[l], t) = rows[l] \/ GetJob(rows[l], t).status = "timed_out"
    BY <2>1 DEF GetJob, TimedOutJob, TerminalJob, Rows
  <2>3. QED
    BY <1>2, <2>2 DEF CoreInv, TypeOK
<1>3. QED
  BY <1>1, <1>2 DEF GetTxn, GetReply, StorageError

\* Every step keeps the queue facts.
LEMMA PendingKeeps ==
    ASSUME CoreInv, PendingInv, Next
    PROVE  PendingInv'
<1>1. ASSUME NEW b \in Bindings, Submit(b) PROVE PendingInv'
  <2>1. CASE UNCHANGED <<rows, issued, events, queue, unstored>>
    BY <1>1, <2>1, PendingFrame DEF Submit
  <2>2. CASE \E l \in Locators \ issued :
               /\ rows' = [rows EXCEPT ![l] = NewQueuedJob(b, clock)]
               /\ issued' = issued \cup {l}
               /\ UNCHANGED <<events, queue>>
    <3>1. PICK l \in Locators \ issued :
               /\ rows' = [rows EXCEPT ![l] = NewQueuedJob(b, clock)]
               /\ issued' = issued \cup {l}
               /\ queue' = queue
      BY <2>2
    <3>2. \A m \in Locators :
            rows'[m].status = rows[m].status \/ rows'[m].status = "queued"
      BY <3>1 DEF NewQueuedJob, CoreInv, TypeOK
    <3>3. \A m \in Locators :
            rows'[m].status \in {"running", "cancel_requested"} =>
              rows[m].status \in {"running", "cancel_requested"}
      BY <3>2
    <3> QED
      BY <1>1, <3>1, <3>3, PendingFrame DEF Submit
  <2>3. CASE \E l \in Locators \ issued :
               /\ rows' = [rows EXCEPT ![l] = NewQueuedJob(b, clock)]
               /\ issued' = issued \cup {l}
               /\ events' = events \cup {l}
               /\ queue' = Append(queue, l)
    <3>1. PICK l \in Locators \ issued :
               /\ rows' = [rows EXCEPT ![l] = NewQueuedJob(b, clock)]
               /\ issued' = issued \cup {l}
               /\ queue' = Append(queue, l)
      BY <2>3
    <3>2. /\ queue \in Seq(Locators \cup {Stop}) /\ Len(queue) \in Nat
          /\ Len(queue') = Len(queue) + 1 /\ queue'[Len(queue) + 1] = l
          /\ \A i \in 1..Len(queue) : queue'[i] = queue[i]
      BY <3>1 DEF CoreInv, TypeOK
    <3>3. /\ rows'[l].status = "queued" /\ starts'[l] = 0
          /\ \A m \in Locators : m # l => rows'[m] = rows[m]
          /\ starts' = starts /\ worker' = worker
      BY <1>1, <3>1 DEF Submit, NewQueuedJob, CoreInv, TypeOK, IssuedInv
    <3>6. \A i \in 1..Len(queue) : queue[i] # Stop => queue[i] \in Locators
      BY DEF CoreInv, TypeOK
    <3>7. \A i \in 1..Len(queue') :
            queue'[i] # Stop => queue'[i] \in issued' /\ Untouched(queue[i])'
      <4>1. SUFFICES ASSUME NEW i \in 1..Len(queue'), queue'[i] # Stop
                     PROVE  queue'[i] \in issued' /\ Untouched(queue[i])'
        OBVIOUS
      <4>2. CASE i = Len(queue) + 1
        BY <4>2, <3>1, <3>2, <3>3 DEF Untouched
      <4>3. CASE i \in 1..Len(queue)
        BY <4>1, <4>3, <3>1, <3>2, <3>3, <3>6 DEF PendingInv, Untouched
      <4>4. QED
        BY <4>2, <4>3, <3>2
    <3>8. \A i, j \in 1..Len(queue') :
            queue'[i] # Stop /\ queue'[i] = queue'[j] => i = j
      BY <3>1, <3>2, SearchJobAssumption DEF PendingInv
    <3>9. /\ worker'.pc = "claim" => Untouched(worker.loc)'
          /\ worker'.pc \notin {"idle", "stopped"} =>
               /\ worker'.loc \in issued'
               /\ \A i \in 1..Len(queue') : queue'[i] # worker'.loc
      BY <3>1, <3>2, <3>3 DEF PendingInv, CoreInv, ThreadInv, Untouched
    <3>10. QED
      BY <3>7, <3>8, <3>9 DEF PendingInv
  <2>4. QED
    BY <1>1, <2>1, <2>2, <2>3 DEF Submit
<1>2. ASSUME NEW c \in Clients, ClientStep(c) PROVE PendingInv'
  <2>1. ASSUME NEW l \in Locators, GetBegin(c, l) \/ CancelBegin(c, l)
        PROVE  PendingInv'
    BY <2>1, PendingFrame DEF GetBegin, CancelBegin
  <2>2. CASE GetTxn(c)
    <3> DEFINE l == clients[c].loc
    <3>1. l \in Locators
      BY <2>2 DEF CoreInv, TypeOK, IssuedInv, GetTxn
    <3>2. \A m \in Locators : rows'[m] = rows[m] \/ rows'[m].status = "timed_out"
      BY <2>2, <3>1, GetTxnRows
    <3>3. QED
      BY <2>2, <3>2, PendingFrame DEF GetTxn
  <2>3. CASE CancelTxn(c)
    <3> DEFINE l == clients[c].loc
    <3>1. l \in Locators /\ clients[c].t \in Nat
      BY <2>3 DEF CoreInv, TypeOK, IssuedInv, CancelTxn
    <3>2. CASE rows' = rows
      BY <2>3, <3>2, PendingFrame DEF CancelTxn
    <3>3. CASE /\ Readable(l, clients[c].t)
               /\ rows' = [rows EXCEPT ![l] = CancelJob(rows[l], clients[c].t)]
      <4>1. /\ rows[l] \in Rows /\ ValidState(rows[l])
            /\ TimeOrdered(rows[l], clients[c].t)
            /\ rows' = [rows EXCEPT ![l] = CancelJob(rows[l], clients[c].t)]
        BY <3>1, <3>3 DEF Readable, CoreInv, TypeOK, RowsValid
      <4>2. \/ CancelJob(rows[l], clients[c].t) = rows[l]
            \/ CancelJob(rows[l], clients[c].t).status = "cancelled"
            \/ rows[l].status = "running"
        BY <3>1, <4>1, CancelJobFacts
      <4>3. \A m \in Locators :
              rows'[m].status \in {"running", "cancel_requested"} =>
              rows[m].status \in {"running", "cancel_requested"}
        BY <3>1, <4>1, <4>2 DEF CoreInv, TypeOK
      <4>4. QED
        BY <2>3, <4>3, PendingFrame DEF CancelTxn
    <3>4. QED
      BY <2>3, <3>2, <3>3 DEF CancelTxn, StorageError
  <2>4. CASE CancelSignal(c)
    BY <2>4, PendingFrame DEF CancelSignal
  <2>5. QED
    BY <1>2, <2>1, <2>2, <2>3, <2>4 DEF ClientStep
<1>3. CASE WorkerTake
  <2>1. /\ queue \in Seq(Locators \cup {Stop}) /\ Len(queue) \in Nat
        /\ Len(queue) >= 1
        /\ Len(queue') = Len(queue) - 1 /\ Head(queue) = queue[1]
        /\ \A i \in 1..Len(queue') : queue'[i] = queue[i + 1]
    BY <1>3 DEF WorkerTake, CoreInv, TypeOK
  <2>2. /\ issued' = issued /\ starts' = starts /\ rows' = rows
        /\ worker'.loc = queue[1] /\ worker'.pc \in {"stopped", "claim"}
        /\ worker'.pc = "claim" => queue[1] # Stop
    BY <1>3, <2>1 DEF WorkerTake, WorkerAt
  <2>3. /\ \A i \in 1..Len(queue') :
             queue'[i] # Stop => queue'[i] \in issued' /\ Untouched(queue[i])'
        /\ \A i, j \in 1..Len(queue') :
             queue'[i] # Stop /\ queue'[i] = queue'[j] => i = j
    <3>1. ASSUME NEW i \in 1..Len(queue')
          PROVE  i + 1 \in 1..Len(queue) /\ queue'[i] = queue[i + 1]
      BY <2>1
    <3>2. ASSUME NEW i \in 1..Len(queue'), queue'[i] # Stop
          PROVE  queue'[i] \in issued' /\ Untouched(queue[i])'
      BY <2>2, <3>1, <3>2 DEF PendingInv, Untouched
    <3>3. ASSUME NEW i \in 1..Len(queue'), NEW j \in 1..Len(queue'),
                 queue'[i] # Stop, queue'[i] = queue'[j]
          PROVE  i = j
      <4>1. i + 1 = j + 1
        BY <3>1, <3>3 DEF PendingInv
      <4> QED BY <2>1, <4>1
    <3> QED BY <3>2, <3>3
  <2>4. worker'.pc = "claim" =>
          /\ Untouched(worker.loc)' /\ worker'.loc \in issued'
          /\ \A i \in 1..Len(queue') : queue'[i] # worker'.loc
    BY <2>1, <2>2 DEF PendingInv, Untouched
  <2>5. QED
    BY <2>2, <2>3, <2>4 DEF PendingInv
<1>4. CASE Shutdown
  <2>1. /\ queue \in Seq(Locators \cup {Stop}) /\ Len(queue) \in Nat
        /\ Len(queue') = Len(queue) + 1 /\ queue'[Len(queue) + 1] = Stop
        /\ \A i \in 1..Len(queue) : queue'[i] = queue[i]
    BY <1>4 DEF Shutdown, WithStop, CoreInv, TypeOK
  <2>2. \A l : Untouched(l)' <=> Untouched(l)
    BY <1>4 DEF Shutdown, Untouched
  <2>3. worker.pc \notin {"idle", "stopped"} => worker.loc # Stop
    BY SearchJobAssumption DEF CoreInv, ThreadInv
  <2>4. QED
    BY <1>4, <2>1, <2>2, <2>3 DEF PendingInv, Shutdown
<1>5. CASE WorkerClaim
  BY <1>5, PendingWorker
     DEF WorkerClaim, StorageError, AfterClaim, WorkerAt, CoreInv, TypeOK
<1>6. CASE WorkerBegin
  BY <1>6, PendingWorker DEF WorkerBegin, WorkerAt, CoreInv, TypeOK
<1>7. ASSUME NEW outcome \in Outcomes, RunnerEnds(outcome) PROVE PendingInv'
  BY <1>7, PendingWorker DEF RunnerEnds, WorkerAt
<1>8. CASE WorkerFinish
  BY <1>8, PendingWorker
     DEF WorkerFinish, StorageError, WorkerAt, CoreInv, TypeOK
<1>9. CASE WorkerDrop
  BY <1>9, PendingWorker DEF WorkerDrop, WorkerAt, WorkerIdle
<1>10. CASE Purge
  BY <1>10, PendingFrame DEF Purge, NoRow
<1>11. CASE Tick \/ Regress
  BY <1>11, PendingFrame DEF Tick, Regress
<1>12. CASE Exit
  BY <1>12 DEF Exit, PendingInv, WorkerIdle, WorkerAt
<1>13. CASE Restart
  <2>1. ASSUME NEW l \in Locators
        PROVE  rows'[l].status \notin {"running", "cancel_requested"}
    <3>1. rows'[l] = RecoverJob(rows[l], clock)
      BY <1>13 DEF Restart
    <3>2. CASE rows[l].status \notin Active
      BY <3>1, <3>2 DEF RecoverJob, Active
    <3>3. CASE rows[l].status \in Active
      <4>1. rows[l] \in Rows
        BY <3>3 DEF CoreInv, TypeOK, NoRow, Active
      <4>2. QED
        BY <3>1, <3>3, <4>1 DEF RecoverJob, TerminalJob, Rows
    <3>4. QED
      BY <3>2, <3>3
  <2>2. QED
    BY <1>13, <2>1, PendingFrame DEF Restart
<1>14. QED
  BY <1>1, <1>2, <1>3, <1>4, <1>5, <1>6, <1>7, <1>8, <1>9, <1>10, <1>11,
     <1>12, <1>13 DEF Next, WorkerStep

-----------------------------------------------------------------------------
(* The safety theorems *)

\* One step of the specification keeps the inductive invariant.
LEMMA StepIInv == IInv /\ [Next]_vars => IInv'
<1> SUFFICES ASSUME IInv, [Next]_vars PROVE IInv'
  OBVIOUS
<1> USE DEF IInv
<1>1. CASE Next
  <2>1. PendingInv'
    BY <1>1, PendingKeeps
  <2>2. CASE WorkerStep
    BY <2>1, <2>2, WorkerTakeKeeps, WorkerClaimKeeps, WorkerBeginKeeps,
       RunnerEndsKeeps, WorkerFinishKeeps, WorkerDropKeeps DEF WorkerStep
  <2>3. ASSUME NEW b \in Bindings, Submit(b) PROVE IInv'
    BY <2>1, <2>3, SubmitKeeps
  <2>4. ASSUME NEW c \in Clients, ClientStep(c) PROVE IInv'
    BY <2>1, <2>4, GetBeginKeeps, CancelBeginKeeps, GetTxnKeeps,
       CancelTxnKeeps, CancelSignalKeeps DEF ClientStep
  <2>5. CASE Shutdown \/ Purge \/ Tick \/ Regress \/ Exit \/ Restart
    BY <2>1, <2>5, ShutdownKeeps, PurgeKeeps, TickKeeps, RegressKeeps,
       ExitKeeps, RestartKeeps
  <2>6. QED
    BY <1>1, <2>2, <2>3, <2>4, <2>5 DEF Next
<1>2. CASE UNCHANGED vars
  BY <1>2
     DEF vars, PendingInv, Untouched, CoreInv, TypeOK, IssuedInv, ThreadInv,
         RowsValid, CallbackOwnsActiveRow, RunsAtMostOnce, EntryInv,
         AckedCancelWins, NoSpuriousCancel, SignalInv
<1>3. QED
  BY <1>1, <1>2

\* IInv is an invariant of the executor.
THEOREM Invariance == Spec => []IInv
<1>1. Init => IInv
  BY InitCore DEF Init, IInv, PendingInv, WorkerIdle, WorkerAt
<1>2. QED
  BY <1>1, StepIInv, PTL DEF Spec

\* Type correctness of the repository and of the executor's threads.
THEOREM TypeCorrectness == Spec => []TypeOK
<1>1. IInv => TypeOK
  BY DEF IInv, CoreInv
<1>2. QED
  BY <1>1, Invariance, PTL

\* Every row in the table passes SearchJobSnapshot.validate_state, whatever
\* the interleaving, the process exits and the wall clock do.
THEOREM RowsAlwaysValid == Spec => []RowsValid
<1>1. IInv => RowsValid
  BY DEF IInv, CoreInv
<1>2. QED
  BY <1>1, Invariance, PTL

\* The callback of a job is entered at most once, and only if it was claimed.
THEOREM CallbackRunsAtMostOnce == Spec => []RunsAtMostOnce
<1>1. IInv => RunsAtMostOnce
  BY DEF IInv, CoreInv
<1>2. QED
  BY <1>1, Invariance, PTL

\* The row of a job that is being executed is running or cancel_requested.
THEOREM CallbackRowIsActive == Spec => []CallbackOwnsActiveRow
<1>1. IInv => CallbackOwnsActiveRow
  BY DEF IInv, CoreInv
<1>2. QED
  BY <1>1, Invariance, PTL

\* An acknowledged cancellation is never overridden, and a job is cancelled
\* only if a caller asked for it.
THEOREM CancellationIsExact == Spec => [](AckedCancelWins /\ NoSpuriousCancel)
<1>1. IInv => AckedCancelWins /\ NoSpuriousCancel
  BY DEF IInv, CoreInv
<1>2. QED
  BY <1>1, Invariance, PTL

-----------------------------------------------------------------------------
(* No job is lost *)

\* What keeps the table and the queue in memory together, but for the jobs the
\* storage failed, while the clock is not set back: the queue dies with the
\* process, takes no job behind a _STOP, and the times at which the worker read
\* the clock are not before the last change of a row it has yet to claim or to
\* finish.  Without the last part a claim could be refused by
\* _ensure_time_order and drop its job.
QueueInv ==
    /\ ~up => queue = <<>>
    /\ accepting => \A i \in 1..Len(queue) : queue[i] # Stop

Waits(l) == rows[l].status \in {"queued", "running"}

TimeInv ==
    regressed = 0 =>
        /\ worker.t <= clock
        /\ \A l \in Locators : Waits(l) => rows[l].updated_at <= clock
        /\ worker.pc = "claim" /\ rows[worker.loc].status = "queued" =>
              rows[worker.loc].updated_at <= worker.t
        /\ worker.pc = "finish" /\ rows[worker.loc].status = "running" =>
              rows[worker.loc].updated_at <= worker.t

PlaceInv == QueueInv /\ TimeInv /\ NoLostJob

\* An unfinished row has the fields of a row.
LEMMA WaitingRow ==
    ASSUME CoreInv, NEW l \in Locators, Waits(l)
    PROVE  rows[l] \in Rows /\ rows[l] # NoRow /\ rows[l].updated_at \in Nat
BY DEF CoreInv, TypeOK, Waits, NoRow, Rows

\* Steps that move neither queue nor worker and write no waiting row keep
\* every job in its place.
LEMMA PlaceFrame ==
    ASSUME CoreInv, PlaceInv, clock' \in Nat, clock' >= clock,
           UNCHANGED <<up, accepting, queue, worker, unstored, regressed>>,
           \A l \in Locators : Waits(l)' => rows'[l] = rows[l]
    PROVE  PlaceInv'
<1>1. QueueInv'
  BY DEF PlaceInv, QueueInv
<1>2. \A l \in Locators : Waits(l)' => Waits(l) /\ rows'[l] = rows[l]
  BY DEF Waits
<1>3. TimeInv'
  <2>1. worker.pc \in {"claim", "finish"} => worker.loc \in Locators
    BY DEF CoreInv, ThreadInv
  <2>2. clock \in Nat /\ worker.t \in Nat
    BY DEF CoreInv, TypeOK
  <2>3. \A l \in Locators : Waits(l) => rows[l].updated_at \in Nat
    BY WaitingRow
  <2>4. QED
    BY <1>2, <2>1, <2>2, <2>3 DEF PlaceInv, TimeInv, Waits
<1>4. NoLostJob'
  BY <1>2 DEF PlaceInv, NoLostJob, QueuedHasPlace, RunningHasWorker, Waits
<1>5. QED
  BY <1>1, <1>3, <1>4 DEF PlaceInv

\* Every step keeps every job in its place.
LEMMA PlaceKeeps ==
    ASSUME IInv, PlaceInv, [Next]_vars
    PROVE  PlaceInv'
<1> USE DEF IInv
<1>0. clock \in Nat /\ regressed \in Nat /\ worker.t \in Nat
  BY DEF CoreInv, TypeOK
<1>1. ASSUME NEW b \in Bindings, Submit(b) PROVE PlaceInv'
  <2>1. CASE UNCHANGED <<rows, issued, events, queue, unstored>>
    BY <1>0, <1>1, <2>1, PlaceFrame DEF Submit
  <2>2. ASSUME NEW l \in Locators \ issued,
               rows' = [rows EXCEPT ![l] = NewQueuedJob(b, clock)],
               queue' = Append(queue, l), unstored' = unstored
        PROVE  PlaceInv'
    <3>1. /\ Len(queue) \in Nat
          /\ Len(queue') = Len(queue) + 1 /\ queue'[Len(queue) + 1] = l
          /\ \A i \in 1..Len(queue) : queue'[i] = queue[i]
      BY <2>2 DEF CoreInv, TypeOK
    <3>2. /\ rows'[l].status = "queued" /\ rows'[l].updated_at = clock
          /\ \A m \in Locators : m # l => rows'[m] = rows[m]
      BY <2>2 DEF NewQueuedJob, CoreInv, TypeOK
    <3>3. /\ up /\ accepting /\ l # Stop
          /\ UNCHANGED <<up, accepting, clock, worker, unstored, regressed>>
      BY <1>1, <2>2, SearchJobAssumption DEF Submit
    <3>4. worker.pc \in {"claim", "finish"} => worker.loc \in Locators \ {l}
      BY DEF PendingInv, CoreInv, ThreadInv
    <3>5. \A i \in 1..Len(queue') : queue'[i] # Stop
      BY <3>1, <3>3 DEF PlaceInv, QueueInv
    <3>6. QueueInv'
      BY <3>3, <3>5 DEF QueueInv
    <3>7. TimeInv'
      BY <1>0, <3>2, <3>3, <3>4 DEF PlaceInv, TimeInv, Waits
    <3>8. QueuedHasPlace'
      <4>1. SUFFICES ASSUME regressed = 0, NEW m \in Locators,
                            rows'[m].status = "queued", m \notin unstored,
                            ~(worker.pc = "claim" /\ worker.loc = m)
                     PROVE  \E i \in 1..Len(queue') : queue'[i] = m
        BY <3>1, <3>3, <3>5 DEF QueuedHasPlace
      <4>2. CASE m = l
        BY <3>1, <4>2
      <4>3. CASE m # l
        BY <3>1, <3>2, <3>3, <4>1, <4>3 DEF PlaceInv, NoLostJob, QueuedHasPlace
      <4>4. QED
        BY <4>2, <4>3
    <3>9. RunningHasWorker'
      BY <3>2, <3>3 DEF PlaceInv, NoLostJob, RunningHasWorker
    <3>10. QED
      BY <3>6, <3>7, <3>8, <3>9 DEF PlaceInv, NoLostJob
  <2>3. ASSUME NEW l \in Locators \ issued,
               rows' = [rows EXCEPT ![l] = NewQueuedJob(b, clock)],
               queue' = queue, unstored' = unstored \cup {l}
        PROVE  PlaceInv'
    <3>1. /\ rows'[l].status = "queued" /\ rows'[l].updated_at = clock
          /\ \A m \in Locators : m # l => rows'[m] = rows[m]
      BY <2>3 DEF NewQueuedJob, CoreInv, TypeOK
    <3>2. UNCHANGED <<up, accepting, clock, worker, queue, regressed>>
      BY <1>1, <2>3 DEF Submit
    <3>3. worker.pc \in {"claim", "finish"} => worker.loc \in Locators \ {l}
      BY DEF PendingInv, CoreInv, ThreadInv
    <3>4. QueueInv'
      BY <3>2 DEF PlaceInv, QueueInv
    <3>5. TimeInv'
      BY <1>0, <3>1, <3>2, <3>3 DEF PlaceInv, TimeInv, Waits
    <3>6. NoLostJob'
      BY <2>3, <3>1, <3>2
         DEF PlaceInv, NoLostJob, QueuedHasPlace, RunningHasWorker
    <3> QED
      BY <3>4, <3>5, <3>6 DEF PlaceInv
  <2>4. QED
    BY <1>1, <2>1, <2>2, <2>3 DEF Submit
<1>2. ASSUME NEW c \in Clients, ClientStep(c) PROVE PlaceInv'
  <2>1. ASSUME NEW l \in Locators, GetBegin(c, l) \/ CancelBegin(c, l)
        PROVE  PlaceInv'
    BY <1>0, <2>1, PlaceFrame DEF GetBegin, CancelBegin
  <2>2. CASE GetTxn(c)
    <3>1. clients[c].loc \in Locators
      BY <2>2 DEF CoreInv, TypeOK, IssuedInv, GetTxn
    <3>2. \A m \in Locators : rows'[m] = rows[m] \/ rows'[m].status = "timed_out"
      BY <2>2, <3>1, GetTxnRows
    <3>3. QED
      BY <1>0, <2>2, <3>2, PlaceFrame DEF GetTxn, Waits
  <2>3. CASE CancelTxn(c)
    <3> DEFINE l == clients[c].loc
    <3>1. l \in Locators /\ clients[c].t \in Nat
      BY <2>3 DEF CoreInv, TypeOK, IssuedInv, CancelTxn
    <3>2. CASE rows' = rows
      BY <1>0, <2>3, <3>2, PlaceFrame DEF CancelTxn
    <3>3. CASE /\ Readable(l, clients[c].t)
               /\ rows' = [rows EXCEPT ![l] = CancelJob(rows[l], clients[c].t)]
      <4>1. /\ rows[l] \in Rows /\ ValidState(rows[l])
            /\ TimeOrdered(rows[l], clients[c].t)
            /\ rows' = [rows EXCEPT ![l] = CancelJob(rows[l], clients[c].t)]
        BY <3>1, <3>3 DEF Readable, CoreInv, TypeOK, RowsValid
      <4>2. \/ CancelJob(rows[l], clients[c].t) = rows[l]
            \/ CancelJob(rows[l], clients[c].t).status
                  \in {"cancelled", "cancel_requested"}
        BY <3>1, <4>1, CancelJobFacts
      <4>3. \A m \in Locators : Waits(m)' => rows'[m] = rows[m]
        BY <3>1, <4>1, <4>2 DEF CoreInv, TypeOK, Waits
      <4>4. QED
        BY <1>0, <2>3, <4>3, PlaceFrame DEF CancelTxn
    <3>4. QED
      BY <2>3, <3>2, <3>3 DEF CancelTxn, StorageError
  <2>4. CASE CancelSignal(c)
    BY <1>0, <2>4, PlaceFrame DEF CancelSignal
  <2>5. QED
    BY <1>2, <2>1, <2>2, <2>3, <2>4 DEF ClientStep
<1>3. CASE Shutdown
  <2>1. /\ Len(queue) \in Nat /\ Len(queue') = Len(queue) + 1
        /\ \A i \in 1..Len(queue) : queue'[i] = queue[i]
    BY <1>3 DEF Shutdown, WithStop, CoreInv, TypeOK
  <2>2. /\ up /\ ~accepting'
        /\ UNCHANGED <<rows, up, clock, worker, unstored, regressed>>
    BY <1>3 DEF Shutdown
  <2>3. QueueInv' /\ TimeInv'
    BY <2>2 DEF PlaceInv, QueueInv, TimeInv, Waits
  <2>4. QueuedHasPlace'
    <3>1. SUFFICES ASSUME regressed = 0, NEW m \in Locators,
                          rows[m].status = "queued", m \notin unstored,
                          ~(worker.pc = "claim" /\ worker.loc = m)
                   PROVE  \E i \in 1..Len(queue') :
                             queue'[i] = m /\ \A j \in 1..i : queue'[j] # Stop
      BY <2>2 DEF QueuedHasPlace
    <3>2. PICK i \in 1..Len(queue) :
             queue[i] = m /\ \A j \in 1..i : queue[j] # Stop
      BY <2>2, <3>1 DEF PlaceInv, NoLostJob, QueuedHasPlace
    <3>3. QED
      BY <2>1, <3>2
  <2>5. RunningHasWorker'
    BY <2>2 DEF PlaceInv, NoLostJob, RunningHasWorker
  <2>6. QED
    BY <2>3, <2>4, <2>5 DEF PlaceInv, NoLostJob
<1>4. CASE WorkerTake
  <2>1. /\ Len(queue) \in Nat /\ Len(queue) >= 1
        /\ Len(queue') = Len(queue) - 1 /\ Head(queue) = queue[1]
        /\ \A i \in 1..Len(queue') : queue'[i] = queue[i + 1]
    BY <1>4 DEF WorkerTake, CoreInv, TypeOK
  <2>2. /\ up /\ worker.pc = "idle"
        /\ UNCHANGED <<rows, up, accepting, clock, unstored, regressed>>
        /\ worker'.loc = queue[1]
        /\ worker'.pc = IF queue[1] = Stop THEN "stopped" ELSE "claim"
        /\ worker'.t \in {0, clock}
        /\ worker'.pc = "claim" => worker'.t = clock
    BY <1>4, <2>1 DEF WorkerTake, WorkerAt
  <2>3. QueueInv'
    BY <2>1, <2>2 DEF PlaceInv, QueueInv
  <2>4. TimeInv'
    <3>1. worker'.pc = "claim" => worker'.loc \in Locators
      BY <2>1, <2>2 DEF CoreInv, TypeOK
    <3>2. QED
      BY <1>0, <2>2, <3>1 DEF PlaceInv, TimeInv, Waits
  <2>5. QueuedHasPlace'
    <3>1. SUFFICES ASSUME regressed = 0, NEW m \in Locators,
                          rows[m].status = "queued", m \notin unstored,
                          ~(worker'.pc = "claim" /\ worker'.loc = m)
                   PROVE  \E i \in 1..Len(queue') :
                             queue'[i] = m /\ \A j \in 1..i : queue'[j] # Stop
      BY <2>2 DEF QueuedHasPlace
    <3>2. PICK i \in 1..Len(queue) :
             queue[i] = m /\ \A j \in 1..i : queue[j] # Stop
      BY <2>2, <3>1 DEF PlaceInv, NoLostJob, QueuedHasPlace
    <3>3. queue[1] # Stop /\ i # 1
      BY <2>2, <3>1, <3>2
    <3>4. i - 1 \in 1..Len(queue') /\ queue'[i - 1] = m
      BY <2>1, <3>2, <3>3
    <3>5. \A j \in 1..(i - 1) : queue'[j] # Stop
      BY <2>1, <3>2, <3>4
    <3>6. QED
      BY <3>4, <3>5
  <2>6. RunningHasWorker'
    BY <2>2 DEF PlaceInv, NoLostJob, RunningHasWorker
  <2>7. QED
    BY <2>3, <2>4, <2>5, <2>6 DEF PlaceInv, NoLostJob
<1>5. CASE WorkerClaim
  <2> DEFINE l == worker.loc
             claimed == ClaimJob(rows[l], worker.t)
  <2>1. /\ l \in Locators /\ up /\ worker.pc = "claim"
        /\ UNCHANGED <<up, accepting, queue, clock, regressed>>
        /\ unstored \subseteq unstored'
    BY <1>5 DEF WorkerClaim, CoreInv, ThreadInv
  <2>2. QueueInv'
    BY <2>1 DEF PlaceInv, QueueInv
  <2>3. \A m \in Locators : m # l => rows'[m] = rows[m]
    BY <1>5, <2>1 DEF WorkerClaim, StorageError, CoreInv, TypeOK
  <2>4. worker'.loc = l /\ worker'.t = 0 /\ worker'.pc \in {"begin", "drop"}
    BY <1>5 DEF WorkerClaim, WorkerAt, AfterClaim
  <2>5. rows[l].status # "running"
    BY <2>1 DEF PendingInv, Untouched
  <2>6. /\ rows' = rows \/ (Readable(l, worker.t) /\ rows'[l] = claimed)
        /\ \/ l \in unstored'
           \/ ~Readable(l, worker.t) /\ rows' = rows
           \/ /\ Readable(l, worker.t) /\ rows'[l] = claimed
              /\ worker'.pc = AfterClaim(claimed)
    BY <1>5, <2>1 DEF WorkerClaim, StorageError, WorkerAt, CoreInv, TypeOK
  <2>7. Readable(l, worker.t) =>
           /\ claimed.status # "queued"
           /\ claimed.status = "running" =>
                rows[l].status = "queued" /\ claimed.updated_at = worker.t
    <3>1. SUFFICES ASSUME Readable(l, worker.t)
                   PROVE  /\ claimed.status # "queued"
                          /\ claimed.status = "running" =>
                               /\ rows[l].status = "queued"
                               /\ claimed.updated_at = worker.t
      OBVIOUS
    <3>2. rows[l] \in Rows /\ ValidState(rows[l]) /\ TimeOrdered(rows[l], worker.t)
      BY <2>1, <3>1 DEF Readable, CoreInv, TypeOK, RowsValid
    <3>3. /\ claimed.status # "queued"
          /\ claimed.status = "running" => rows[l].status = "queued"
      BY <1>0, <2>5, <3>2, ClaimJobFacts
    <3>4. QED
      BY <3>2, <3>3 DEF ClaimJob, Rows, TimedOutJob, TerminalJob
  <2>8. ~Readable(l, worker.t) /\ regressed = 0 => rows[l].status # "queued"
    <3>1. SUFFICES ASSUME ~Readable(l, worker.t), regressed = 0,
                          rows[l].status = "queued"
                   PROVE  FALSE
      OBVIOUS
    <3>2. rows[l] # NoRow /\ rows[l].updated_at <= worker.t
      BY <2>1, <3>1 DEF PlaceInv, TimeInv, NoRow
    <3>3. rows[l].updated_at \in Nat
      BY <2>1, <3>1, WaitingRow DEF Waits
    <3>4. QED
      BY <1>0, <3>1, <3>2, <3>3 DEF Readable, TimeOrdered
  <2>9. regressed = 0 /\ l \notin unstored' =>
           /\ rows'[l].status # "queued"
           /\ rows'[l].status = "running" => worker'.pc = "begin"
    BY <2>5, <2>6, <2>7, <2>8 DEF AfterClaim
  <2> HIDE DEF claimed
  <2>10. regressed = 0 /\ rows'[l].status \in {"queued", "running"} =>
            rows'[l].updated_at <= clock
    <3>1. CASE rows' = rows
      BY <2>1, <3>1 DEF PlaceInv, TimeInv, Waits
    <3>2. CASE Readable(l, worker.t) /\ rows'[l] = claimed
      BY <2>7, <3>2 DEF PlaceInv, TimeInv
    <3>3. QED
      BY <2>6, <3>1, <3>2
  <2>11. TimeInv'
    BY <1>0, <2>1, <2>3, <2>4, <2>10 DEF PlaceInv, TimeInv, Waits
  <2>12. NoLostJob'
    BY <2>1, <2>3, <2>4, <2>9
       DEF PlaceInv, NoLostJob, QueuedHasPlace, RunningHasWorker
  <2>13. QED
    BY <2>2, <2>11, <2>12 DEF PlaceInv
<1>6. CASE WorkerBegin \/ \E outcome \in Outcomes : RunnerEnds(outcome)
  <2>1. /\ worker.pc \in {"begin", "run"} /\ worker'.loc = worker.loc
        /\ worker'.pc \in {"run", "finish"} /\ worker'.t \in {0, clock}
        /\ worker'.pc = "finish" => worker'.t = clock
        /\ up
        /\ UNCHANGED <<rows, up, accepting, queue, unstored, regressed, clock>>
    BY <1>6 DEF WorkerBegin, RunnerEnds, WorkerAt
  <2>2. worker.loc \in Locators
    BY <2>1 DEF CoreInv, ThreadInv
  <2>3. TimeInv'
    BY <1>0, <2>1, <2>2 DEF PlaceInv, TimeInv, Waits
  <2>4. QueueInv' /\ NoLostJob'
    BY <2>1
       DEF PlaceInv, QueueInv, NoLostJob, QueuedHasPlace, RunningHasWorker
  <2>5. QED
    BY <2>3, <2>4 DEF PlaceInv
<1>7. CASE WorkerFinish
  <2> DEFINE l == worker.loc
  <2>1. /\ l \in Locators /\ up /\ worker.pc = "finish"
        /\ worker'.loc = l /\ worker'.pc = "drop" /\ worker'.t = 0
        /\ UNCHANGED <<up, accepting, queue, clock, regressed>>
        /\ unstored \subseteq unstored'
        /\ rows[l].status \in {"running", "cancel_requested"}
    BY <1>7
       DEF WorkerFinish, WorkerAt, CoreInv, ThreadInv, CallbackOwnsActiveRow
  <2>2. \A m \in Locators : m # l => rows'[m] = rows[m]
    BY <1>7, <2>1 DEF WorkerFinish, StorageError, CoreInv, TypeOK
  <2>3. rows[l] \in Rows /\ rows[l] # NoRow /\ ValidState(rows[l])
    BY <2>1 DEF CoreInv, TypeOK, NoRow, RowsValid
  <2>4. /\ \/ rows' = rows
           \/ rows'[l] = FinishJob(rows[l], worker.outcome, worker.t)
        /\ \/ l \in unstored'
           \/ ~Readable(l, worker.t)
           \/ rows'[l] = FinishJob(rows[l], worker.outcome, worker.t)
    BY <1>7, <2>1 DEF WorkerFinish, StorageError, CoreInv, TypeOK
  <2>5. FinishJob(rows[l], worker.outcome, worker.t).status
          \in {"succeeded", "failed", "cancelled"}
    BY <2>3 DEF FinishJob, TerminalJob, Rows
  <2>6. ~Readable(l, worker.t) /\ regressed = 0 => rows[l].status # "running"
    BY <1>0, <2>1, <2>3, RowFields
       DEF PlaceInv, TimeInv, Readable, TimeOrdered, Rows
  <2>7. /\ rows'[l].status # "queued"
        /\ rows'[l].status = "running" => rows'[l] = rows[l]
        /\ regressed = 0 /\ l \notin unstored' => rows'[l].status # "running"
    BY <2>1, <2>4, <2>5, <2>6
  <2>8. TimeInv'
    BY <1>0, <2>1, <2>2, <2>7 DEF PlaceInv, TimeInv, Waits
  <2>9. QueueInv' /\ NoLostJob'
    BY <2>1, <2>2, <2>7
       DEF PlaceInv, QueueInv, NoLostJob, QueuedHasPlace, RunningHasWorker
  <2>10. QED
    BY <2>8, <2>9 DEF PlaceInv
<1>8. CASE WorkerDrop
  <2>1. /\ worker.pc = "drop" /\ worker'.pc = "idle" /\ worker'.t = 0
        /\ up
        /\ UNCHANGED <<rows, up, accepting, queue, unstored, regressed, clock>>
    BY <1>8 DEF WorkerDrop, WorkerIdle, WorkerAt
  <2>2. TimeInv'
    BY <1>0, <2>1 DEF PlaceInv, TimeInv, Waits
  <2>3. QueueInv' /\ NoLostJob'
    BY <2>1
       DEF PlaceInv, QueueInv, NoLostJob, QueuedHasPlace, RunningHasWorker
  <2>4. QED
    BY <2>2, <2>3 DEF PlaceInv
<1>9. CASE Purge
  <2>1. \A l \in Locators : Waits(l)' => rows'[l] = rows[l]
    BY <1>9 DEF Purge, Waits, NoRow
  <2>2. QED
    BY <1>0, <1>9, <2>1, PlaceFrame DEF Purge
<1>10. CASE Tick
  BY <1>0, <1>10, PlaceFrame DEF Tick
<1>11. CASE Regress
  <2>1. regressed' # 0
    BY <1>0, <1>11 DEF Regress
  <2>2. QueueInv'
    BY <1>11 DEF Regress, PlaceInv, QueueInv
  <2>3. QED
    BY <2>1, <2>2
       DEF PlaceInv, TimeInv, NoLostJob, QueuedHasPlace, RunningHasWorker
<1>12. CASE Exit
  <2>1. /\ up' = FALSE /\ queue' = <<>> /\ accepting' = FALSE
        /\ UNCHANGED <<rows, clock, regressed>>
        /\ worker'.pc = "idle" /\ worker'.t = 0
    BY <1>12 DEF Exit, WorkerIdle, WorkerAt
  <2>2. QueueInv' /\ TimeInv'
    BY <1>0, <2>1 DEF PlaceInv, QueueInv, TimeInv, Waits
  <2>3. QED
    BY <2>1, <2>2 DEF PlaceInv, NoLostJob, QueuedHasPlace, RunningHasWorker
<1>13. CASE Restart
  <2>1. queue = <<>> /\ queue' = <<>> /\ worker'.t = worker.t /\ worker'.pc = "idle"
        /\ UNCHANGED <<clock, regressed>>
    BY <1>13 DEF Restart, PlaceInv, QueueInv, CoreInv, ThreadInv
  <2>2. \A l \in Locators : ~Waits(l)'
    <3>1. SUFFICES ASSUME NEW l \in Locators PROVE ~Waits(l)'
      OBVIOUS
    <3>2. rows'[l] = RecoverJob(rows[l], clock)
      BY <1>13 DEF Restart
    <3>3. CASE rows[l].status \notin Active
      BY <3>2, <3>3 DEF RecoverJob, Active, Waits
    <3>4. CASE rows[l].status \in Active
      <4>1. rows[l] \in Rows
        BY <3>4 DEF CoreInv, TypeOK, NoRow, Active
      <4>2. QED
        BY <3>2, <3>4, <4>1 DEF RecoverJob, TerminalJob, Rows, Waits
    <3>5. QED
      BY <3>3, <3>4
  <2>3. QueueInv' /\ TimeInv'
    BY <2>1, <2>2 DEF PlaceInv, QueueInv, TimeInv
  <2>4. NoLostJob'
    BY <2>2 DEF NoLostJob, QueuedHasPlace, RunningHasWorker, Waits
  <2>5. QED
    BY <2>3, <2>4 DEF PlaceInv
<1>14. CASE UNCHANGED vars
  BY <1>0, <1>14, PlaceFrame DEF vars
<1>15. QED
  BY <1>1, <1>2, <1>3, <1>4, <1>5, <1>6, <1>7, <1>8, <1>9, <1>10, <1>11,
     <1>12, <1>13, <1>14 DEF Next, WorkerStep

\* As long as the process lives and its clock is not set back, every queued
\* job waits in front of _STOP or is being claimed, and a running job is the
\* worker's, except a job whose own enqueue, claim or finish the storage failed:
\* submit(), _run and recover_interrupted keep the table and the queue in
\* memory together, and the failure of one job costs no other job its place.
THEOREM NoJobIsLost == Spec => []NoLostJob
<1>1. Init => PlaceInv
  BY SearchJobAssumption
     DEF Init, PlaceInv, QueueInv, TimeInv, Waits, NoRow, NoLostJob,
         QueuedHasPlace, RunningHasWorker, WorkerIdle, WorkerAt
<1>2. IInv /\ PlaceInv /\ [Next]_vars => PlaceInv'
  BY PlaceKeeps
<1>3. PlaceInv => NoLostJob
  BY DEF PlaceInv
<1>4. QED
  BY <1>1, <1>2, <1>3, Invariance, PTL DEF Spec

-----------------------------------------------------------------------------
(* Finished rows, and the refinement of JobLifecycle *)

\* The abstract status of a row, and when a step leaves all of them alone.
LEMMA StatusStutter ==
    ASSUME issued' = issued,
           \A l \in Locators :
              /\ rows[l] = NoRow <=> rows'[l] = NoRow
              /\ rows[l].status = rows'[l].status
    PROVE  LifecycleStatus' = LifecycleStatus
BY DEF LifecycleStatus

\* A step that rewrites the status of one existing row is one abstract move.
LEMMA StatusMove ==
    ASSUME NEW l \in Locators, NEW new, issued' = issued,
           rows[l] # NoRow, rows'[l] # NoRow, rows'[l].status = new,
           \A m \in Locators : m # l => rows'[m] = rows[m]
    PROVE  /\ LifecycleStatus' = [LifecycleStatus EXCEPT ![l] = new]
           /\ LifecycleStatus[l] = rows[l].status
BY DEF LifecycleStatus

\* The initial database is the abstract initial state.
LEMMA InitImplements == Init => Lifecycle!Init
BY DEF Init, Lifecycle!Init, Lifecycle!Fresh, LifecycleStatus, Entered, NoRow

\* A claim starts the job, times it out, or changes nothing.
LEMMA ClaimImplements ==
    ASSUME IInv, WorkerClaim
    PROVE  Lifecycle!Next \/ UNCHANGED <<LifecycleStatus, Entered>>
<1> DEFINE l == worker.loc
           t == worker.t
<1>1. l \in Locators /\ t \in Nat
  BY DEF IInv, CoreInv, TypeOK, ThreadInv, WorkerClaim
<1>2. UNCHANGED Entered /\ issued' = issued
  BY DEF WorkerClaim, Entered
<1>3. CASE rows' = rows
  BY <1>2, <1>3, StatusStutter
<1>4. CASE Readable(l, t) /\ rows' = [rows EXCEPT ![l] = ClaimJob(rows[l], t)]
  <2> DEFINE r == ClaimJob(rows[l], t)
  <2>1. /\ rows[l] \in Rows /\ ValidState(rows[l]) /\ TimeOrdered(rows[l], t)
        /\ rows' = [rows EXCEPT ![l] = r]
    BY <1>1, <1>4 DEF Readable, IInv, CoreInv, TypeOK, RowsValid
  <2>2. /\ r \in Rows
        /\ rows[l].status # "queued" => r = rows[l]
        /\ rows[l].status = "queued" => r.status \in {"running", "timed_out"}
    BY <1>1, <2>1, ClaimJobFacts
  <2> HIDE DEF r
  <2>3. /\ rows[l] # NoRow /\ rows'[l] # NoRow /\ rows'[l] = r
        /\ \A m \in Locators : m # l => rows'[m] = rows[m]
    BY <1>1, <2>1, <2>2, RowFields DEF IInv, CoreInv, TypeOK
  <2>4. CASE r = rows[l]
    BY <1>2, <2>3, <2>4, StatusStutter
  <2>5. CASE rows[l].status = "queued"
    <3>1. /\ LifecycleStatus' = [LifecycleStatus EXCEPT ![l] = r.status]
          /\ LifecycleStatus[l] = "queued"
      BY <1>1, <1>2, <2>3, <2>5, StatusMove
    <3>2. Lifecycle!Start(l) \/ Lifecycle!Expire(l)
      BY <1>2, <2>2, <2>5, <3>1
         DEF Lifecycle!Start, Lifecycle!Expire, Lifecycle!Move
    <3>3. QED
      BY <1>1, <3>2 DEF Lifecycle!Next
  <2>6. QED
    BY <2>2, <2>4, <2>5
<1>5. QED
  BY <1>3, <1>4 DEF WorkerClaim, StorageError

\* A finish settles, completes or fails the job by the abstract rules, or is
\* refused and changes nothing.
LEMMA FinishImplements ==
    ASSUME IInv, WorkerFinish
    PROVE  Lifecycle!Next \/ UNCHANGED <<LifecycleStatus, Entered>>
<1> DEFINE l == worker.loc
           t == worker.t
<1>1. /\ l \in Locators /\ t \in Nat /\ worker.outcome \in Outcomes
      /\ rows[l].status \in {"running", "cancel_requested"}
  BY DEF IInv, CoreInv, TypeOK, ThreadInv, CallbackOwnsActiveRow, WorkerFinish
<1>2. UNCHANGED Entered /\ issued' = issued
  BY DEF WorkerFinish, Entered
<1>3. CASE rows' = rows
  BY <1>2, <1>3, StatusStutter
<1>4. CASE /\ Readable(l, t)
           /\ rows' = [rows EXCEPT ![l] = FinishJob(rows[l], worker.outcome, t)]
  <2> DEFINE r == FinishJob(rows[l], worker.outcome, t)
  <2>1. /\ rows[l] \in Rows /\ ValidState(rows[l]) /\ TimeOrdered(rows[l], t)
        /\ rows' = [rows EXCEPT ![l] = r]
    BY <1>1, <1>4 DEF Readable, IInv, CoreInv, TypeOK, RowsValid
  <2>2. /\ r \in Rows
        /\ r.status = IF worker.outcome = "cancelled"
                          \/ rows[l].status = "cancel_requested"
                      THEN "cancelled"
                      ELSE IF worker.outcome = "success"
                           THEN "succeeded" ELSE "failed"
    BY <1>1, <2>1, FinishJobFacts
  <2>3. worker.outcome = "cancelled" => rows[l].status = "cancel_requested"
    BY <1>1 DEF IInv, CoreInv, SignalInv, AckedCancelWins, WorkerFinish
  <2> HIDE DEF r
  <2>4. /\ rows[l] # NoRow /\ rows'[l] # NoRow /\ rows'[l] = r
        /\ \A m \in Locators : m # l => rows'[m] = rows[m]
    BY <1>1, <2>1, <2>2, RowFields DEF IInv, CoreInv, TypeOK
  <2>5. /\ LifecycleStatus' = [LifecycleStatus EXCEPT ![l] = r.status]
        /\ LifecycleStatus[l] = rows[l].status
    BY <1>1, <1>2, <2>4, StatusMove
  <2>6. Lifecycle!Settle(l) \/ Lifecycle!Succeed(l) \/ Lifecycle!Fail(l)
    BY <1>1, <1>2, <2>2, <2>3, <2>5
       DEF Lifecycle!Settle, Lifecycle!Succeed, Lifecycle!Fail, Lifecycle!Move
  <2>7. QED
    BY <1>1, <2>6 DEF Lifecycle!Next
<1>5. QED
  BY <1>3, <1>4 DEF WorkerFinish, StorageError

\* A cancellation cancels a queued job, marks a running one, or changes
\* nothing.
LEMMA CancelImplements ==
    ASSUME IInv, NEW c \in Clients, CancelTxn(c)
    PROVE  Lifecycle!Next \/ UNCHANGED <<LifecycleStatus, Entered>>
<1> DEFINE l == clients[c].loc
           t == clients[c].t
<1>1. l \in Locators /\ t \in Nat
  BY DEF IInv, CoreInv, TypeOK, IssuedInv, CancelTxn
<1>2. UNCHANGED Entered /\ issued' = issued
  BY DEF CancelTxn, Entered
<1>3. CASE rows' = rows
  BY <1>2, <1>3, StatusStutter
<1>4. CASE Readable(l, t) /\ rows' = [rows EXCEPT ![l] = CancelJob(rows[l], t)]
  <2> DEFINE r == CancelJob(rows[l], t)
  <2>1. /\ rows[l] \in Rows /\ ValidState(rows[l]) /\ TimeOrdered(rows[l], t)
        /\ rows' = [rows EXCEPT ![l] = r]
    BY <1>1, <1>4 DEF Readable, IInv, CoreInv, TypeOK, RowsValid
  <2>2. /\ r \in Rows
        /\ rows[l].status = "queued" => r.status = "cancelled"
        /\ rows[l].status = "running" => r.status = "cancel_requested"
        /\ rows[l].status \notin {"queued", "running"} => r = rows[l]
    BY <1>1, <2>1, CancelJobFacts
  <2> HIDE DEF r
  <2>3. /\ rows[l] # NoRow /\ rows'[l] # NoRow /\ rows'[l] = r
        /\ \A m \in Locators : m # l => rows'[m] = rows[m]
    BY <1>1, <2>1, <2>2, RowFields DEF IInv, CoreInv, TypeOK
  <2>4. CASE r = rows[l]
    BY <1>2, <2>3, <2>4, StatusStutter
  <2>5. CASE rows[l].status \in {"queued", "running"}
    <3>1. /\ LifecycleStatus' = [LifecycleStatus EXCEPT ![l] = r.status]
          /\ LifecycleStatus[l] = rows[l].status
      BY <1>1, <1>2, <2>3, StatusMove
    <3>2. Lifecycle!Cancel(l) \/ Lifecycle!Request(l)
      BY <1>2, <2>2, <2>5, <3>1
         DEF Lifecycle!Cancel, Lifecycle!Request, Lifecycle!Move
    <3>3. QED
      BY <1>1, <3>2 DEF Lifecycle!Next
  <2>6. QED
    BY <2>2, <2>4, <2>5
<1>5. QED
  BY <1>3, <1>4 DEF CancelTxn, StorageError

\* get() expires a queued job or changes nothing.
LEMMA GetImplements ==
    ASSUME IInv, NEW c \in Clients, GetTxn(c)
    PROVE  Lifecycle!Next \/ UNCHANGED <<LifecycleStatus, Entered>>
<1> DEFINE l == clients[c].loc
           t == clients[c].t
<1>1. l \in Locators /\ t \in Nat
  BY DEF IInv, CoreInv, TypeOK, IssuedInv, GetTxn
<1>2. UNCHANGED Entered /\ issued' = issued
  BY DEF GetTxn, Entered
<1>3. CASE rows' = rows
  BY <1>2, <1>3, StatusStutter
<1>4. CASE rows' # rows
  <2> DEFINE r == GetJob(rows[l], t)
  <2>1. /\ rows[l] # NoRow /\ TimeOrdered(rows[l], t)
        /\ rows' = [rows EXCEPT ![l] = r]
    BY <1>4 DEF GetTxn, StorageError, GetReply
  <2>2. rows[l] \in Rows /\ ValidState(rows[l])
    BY <1>1, <2>1 DEF IInv, CoreInv, TypeOK, RowsValid
  <2>3. /\ r \in Rows
        /\ r = rows[l] \/ (rows[l].status = "queued" /\ r.status = "timed_out")
    BY <1>1, <2>1, <2>2, GetJobFacts
  <2> HIDE DEF r
  <2>4. rows[l].status = "queued" /\ r.status = "timed_out"
    BY <1>1, <1>4, <2>1, <2>3 DEF IInv, CoreInv, TypeOK
  <2>5. /\ rows'[l] # NoRow /\ rows'[l] = r
        /\ \A m \in Locators : m # l => rows'[m] = rows[m]
    BY <1>1, <2>1, <2>3, RowFields DEF IInv, CoreInv, TypeOK
  <2>6. /\ LifecycleStatus' = [LifecycleStatus EXCEPT ![l] = "timed_out"]
        /\ LifecycleStatus[l] = "queued"
    BY <1>1, <1>2, <2>1, <2>4, <2>5, StatusMove
  <2>7. Lifecycle!Expire(l)
    BY <1>2, <2>6 DEF Lifecycle!Expire, Lifecycle!Move
  <2>8. QED
    BY <1>1, <2>7 DEF Lifecycle!Next
<1>5. QED
  BY <1>3, <1>4

\* submit() accepts a fresh job or returns the one its binding already has.
LEMMA SubmitImplements ==
    ASSUME IInv, NEW b \in Bindings, Submit(b)
    PROVE  Lifecycle!Next \/ UNCHANGED <<LifecycleStatus, Entered>>
<1>1. UNCHANGED Entered
  BY DEF Submit, Entered
<1>2. CASE UNCHANGED <<rows, issued, events, queue>>
  BY <1>1, <1>2, StatusStutter
<1>3. CASE \E l \in Locators \ issued :
             /\ rows' = [rows EXCEPT ![l] = NewQueuedJob(b, clock)]
             /\ issued' = issued \cup {l}
  <2>1. PICK l \in Locators \ issued :
             /\ rows' = [rows EXCEPT ![l] = NewQueuedJob(b, clock)]
             /\ issued' = issued \cup {l}
    BY <1>3
  <2>2. /\ rows[l] = NoRow /\ rows'[l] # NoRow /\ rows'[l].status = "queued"
        /\ \A m \in Locators : m # l => rows'[m] = rows[m]
    BY <2>1, NewQueuedJobFacts, RowFields DEF IInv, CoreInv, TypeOK, IssuedInv
  <2>3. /\ LifecycleStatus[l] = "fresh"
        /\ LifecycleStatus' = [LifecycleStatus EXCEPT ![l] = "queued"]
    <3>1. LifecycleStatus[l] = "fresh" /\ LifecycleStatus'[l] = "queued"
      BY <2>1, <2>2 DEF LifecycleStatus
    <3>2. \A m \in Locators : m # l => LifecycleStatus'[m] = LifecycleStatus[m]
      BY <2>1, <2>2 DEF LifecycleStatus
    <3>3. QED
      BY <3>1, <3>2 DEF LifecycleStatus
  <2>4. Lifecycle!Accept(l)
    BY <1>1, <2>3 DEF Lifecycle!Accept, Lifecycle!Move, Lifecycle!Fresh
  <2>5. QED
    BY <2>4 DEF Lifecycle!Next
<1>4. QED
  BY <1>2, <1>3 DEF Submit

\* Entering the callback is the abstract Enter.
LEMMA BeginImplements ==
    ASSUME IInv, WorkerBegin
    PROVE  Lifecycle!Next \/ UNCHANGED <<LifecycleStatus, Entered>>
<1>1. UNCHANGED LifecycleStatus
  BY StatusStutter DEF WorkerBegin
<1>2. CASE starts' = starts
  BY <1>1, <1>2 DEF Entered
<1>3. CASE starts' = [starts EXCEPT ![worker.loc] = @ + 1]
  <2>1. /\ worker.loc \in Locators /\ starts[worker.loc] = 0
        /\ starts \in [Locators -> Nat]
        /\ rows[worker.loc].status \in {"running", "cancel_requested"}
    BY DEF IInv, CoreInv, TypeOK, ThreadInv, EntryInv, CallbackOwnsActiveRow,
           WorkerBegin
  <2>2. worker.loc \notin Entered /\ Entered' = Entered \cup {worker.loc}
    BY <1>3, <2>1 DEF Entered
  <2>3. LifecycleStatus[worker.loc] \in {"running", "cancel_requested"}
    BY <2>1 DEF LifecycleStatus, NoRow
  <2>4. Lifecycle!Enter(worker.loc)
    BY <1>1, <2>2, <2>3 DEF Lifecycle!Enter
  <2>5. QED
    BY <2>1, <2>4 DEF Lifecycle!Next
<1>4. QED
  BY <1>2, <1>3 DEF WorkerBegin

\* recover_interrupted is the abstract Recover.
LEMMA RestartImplements ==
    ASSUME IInv, Restart
    PROVE  Lifecycle!Next
<1>1. ASSUME NEW l \in Locators
      PROVE  LifecycleStatus'[l] = Lifecycle!Recovered(LifecycleStatus[l])
  <2>1. rows'[l] = RecoverJob(rows[l], clock) /\ clock \in Nat
    BY DEF IInv, CoreInv, TypeOK, Restart
  <2>2. CASE rows[l] = NoRow
    <3>1. rows'[l] = NoRow
      BY <2>1, <2>2 DEF RecoverJob, NoRow, Active
    <3>2. QED
      BY <2>2, <3>1 DEF LifecycleStatus, Lifecycle!Recovered, Restart
  <2>3. CASE rows[l] # NoRow
    <3>1. /\ rows[l] \in Rows /\ ValidState(rows[l])
          /\ rows[l].status \in Active => TimeOrdered(rows[l], clock)
      BY <2>3 DEF IInv, CoreInv, TypeOK, RowsValid, Restart
    <3>2. /\ rows'[l] # NoRow
          /\ rows'[l].status = Lifecycle!Recovered(rows[l].status)
      BY <2>1, <3>1, RecoverJobFacts, RowFields
    <3>3. QED
      BY <2>3, <3>2 DEF LifecycleStatus
  <2>4. QED
    BY <2>2, <2>3
<1>2. LifecycleStatus' = [l \in Locators |-> Lifecycle!Recovered(LifecycleStatus[l])]
  BY <1>1 DEF LifecycleStatus
<1>3. UNCHANGED Entered
  BY DEF Restart, Entered
<1>4. QED
  BY <1>2, <1>3 DEF Lifecycle!Recover, Lifecycle!Next

\* purge_expired is the abstract Forget.
LEMMA PurgeImplements ==
    ASSUME IInv, Purge
    PROVE  Lifecycle!Next
<1> DEFINE S == {l \in Locators : PurgeDue(rows[l], clock)}
<1>1. \A l \in S : rows[l] # NoRow /\ rows[l].status \in Terminal /\ l \in issued
  <2>1. \A l \in S : l \in Locators /\ rows[l].status \in Terminal
    BY DEF PurgeDue
  <2> HIDE DEF S
  <2>2. \A l \in S : rows[l] # NoRow
    BY <2>1 DEF NoRow, Terminal
  <2>3. QED
    BY <2>1, <2>2 DEF IInv, CoreInv, IssuedInv
<1>2. S \in SUBSET {l \in Locators : LifecycleStatus[l] \in Lifecycle!Final}
  BY <1>1 DEF LifecycleStatus, Lifecycle!Final, Terminal
<1>3. /\ \A l \in Locators : rows'[l] = IF l \in S THEN NoRow ELSE rows[l]
      /\ issued' = issued
  BY DEF Purge
<1> HIDE DEF S
<1>4. LifecycleStatus' = [l \in Locators |->
          IF l \in S THEN Lifecycle!Gone ELSE LifecycleStatus[l]]
  BY <1>1, <1>2, <1>3 DEF LifecycleStatus, Lifecycle!Gone
<1>5. UNCHANGED Entered
  BY DEF Purge, Entered
<1>6. QED
  BY <1>2, <1>4, <1>5 DEF Lifecycle!Forget, Lifecycle!Next

\* Every step of the executor is a step of the life cycle or a stutter.
LEMMA StepImplements ==
    IInv /\ [Next]_vars => [Lifecycle!Next]_<<LifecycleStatus, Entered>>
<1> SUFFICES ASSUME IInv, [Next]_vars
             PROVE  Lifecycle!Next \/ UNCHANGED <<LifecycleStatus, Entered>>
  OBVIOUS
<1>1. CASE rows' = rows /\ issued' = issued /\ starts' = starts
  BY <1>1, StatusStutter DEF Entered
<1>2. CASE Next
  <2>1. CASE WorkerStep
    BY <2>1, <1>1, ClaimImplements, BeginImplements, FinishImplements
       DEF WorkerStep, WorkerTake, RunnerEnds, WorkerDrop
  <2>2. ASSUME NEW b \in Bindings, Submit(b)
        PROVE  Lifecycle!Next \/ UNCHANGED <<LifecycleStatus, Entered>>
    BY <2>2, SubmitImplements
  <2>3. ASSUME NEW c \in Clients, ClientStep(c)
        PROVE  Lifecycle!Next \/ UNCHANGED <<LifecycleStatus, Entered>>
    BY <2>3, <1>1, GetImplements, CancelImplements
       DEF ClientStep, GetBegin, CancelBegin, CancelSignal
  <2>4. CASE Shutdown \/ Purge \/ Tick \/ Regress \/ Exit \/ Restart
    BY <2>4, <1>1, PurgeImplements, RestartImplements
       DEF Shutdown, Tick, Regress, Exit
  <2>5. QED
    BY <1>2, <2>1, <2>2, <2>3, <2>4 DEF Next
<1>3. CASE UNCHANGED vars
  BY <1>1, <1>3 DEF vars
<1>4. QED
  BY <1>2, <1>3

\* The executor and its database implement JobLifecycle.
THEOREM Refinement == Spec => ImplementsLifecycle
<1>1. Init => Lifecycle!Init
  BY InitImplements
<1>2. IInv /\ [Next]_vars => [Lifecycle!Next]_<<LifecycleStatus, Entered>>
  BY StepImplements
<1>3. QED
  BY <1>1, <1>2, Invariance, PTL DEF Spec, ImplementsLifecycle, Lifecycle!Spec

\* A finished row is left alone by every step but a purge that is due.
LEMMA FinalRowStep ==
    ASSUME IInv, [Next]_vars, NEW l \in Locators, rows[l].status \in Terminal
    PROVE  \/ rows'[l] = rows[l]
           \/ rows'[l] = NoRow /\ clock >= rows[l].finished_at + Retention
<1>1. /\ rows \in [Locators -> Rows \cup {NoRow}] /\ rows[l] # NoRow
      /\ rows[l].status \notin Active /\ l \in issued
      /\ worker.pc = "claim" => worker.loc \in Locators
      /\ \A c \in Clients : clients[c].pc # "idle" => clients[c].loc \in Locators
  BY DEF IInv, CoreInv, TypeOK, IssuedInv, ThreadInv, NoRow, Active, Terminal
<1>2. CASE rows' = rows
  BY <1>2
<1>3. ASSUME NEW b \in Bindings, Submit(b)
      PROVE  rows'[l] = rows[l]
  BY <1>1, <1>3 DEF Submit
<1>4. ASSUME NEW c \in Clients, GetTxn(c) \/ CancelTxn(c)
      PROVE  rows'[l] = rows[l]
  BY <1>1, <1>4 DEF GetTxn, CancelTxn, StorageError, GetJob, CancelJob, Active
<1>5. CASE WorkerClaim
  BY <1>1, <1>5 DEF WorkerClaim, StorageError, ClaimJob, Active
<1>6. CASE WorkerFinish
  <2>1. worker.loc # l
    BY <1>1, <1>6
       DEF IInv, CoreInv, CallbackOwnsActiveRow, WorkerFinish, Active
  <2>2. QED
    BY <1>1, <1>6, <2>1 DEF WorkerFinish, StorageError
<1>7. CASE Restart
  BY <1>1, <1>7 DEF Restart, RecoverJob
<1>8. CASE Purge
  BY <1>8 DEF Purge, PurgeDue
<1>9. QED
  BY <1>2, <1>3, <1>4, <1>5, <1>6, <1>7, <1>8
     DEF Next, WorkerStep, ClientStep, vars, WorkerTake, WorkerBegin,
         RunnerEnds, WorkerDrop, GetBegin, CancelBegin, CancelSignal,
         Shutdown, Tick, Regress, Exit

\* A finished job never changes again, and its row lives out its retention.
THEOREM FinishedJobsAreFinal == Spec => FinalRowsStay
<1>1. IInv /\ [Next]_vars =>
        [\A l \in Locators : rows[l].status \in Terminal =>
           \/ rows'[l] = rows[l]
           \/ rows'[l] = NoRow /\ clock >= rows[l].finished_at + Retention]_vars
  BY FinalRowStep
<1>2. QED
  BY <1>1, Invariance, PTL DEF Spec, FinalRowsStay
=============================================================================
