----------------------- MODULE ProductionSearchProofs -----------------------
(***************************************************************************)
(* Proofs about ProductionSearch for every set of commands, capabilities   *)
(* and jobs, every number of polls and every lifetime, as long as a job    *)
(* row is kept longer than the plan it was submitted under is valid.       *)
(***************************************************************************)
EXTENDS ProductionSearch, TLAPS

-----------------------------------------------------------------------------
(* The inductive invariant *)

Pcs      == {"idle", "key", "authorize", "create", "poll", "rank", "ranked",
             "save", "end"}
Endings  == {"none", "cancelled", "error", "result"}
Statuses == {"fresh", "gone"} \cup Unfinished \cup Final
Charges  == {"none", "started", "succeeded", "failed"}
Tasks    == {"none", "pending", "done", "failed"}
Stamps   == 0..MaxTime \cup {Never, Lost}
Expiries == 1..(MaxTime + MaxLifetime)
Runners  == [pc : Pcs, job : Jobs \cup {NoJob}, polls : 0..(MaxPolls - 1),
             outcome : Endings]
Posts    == [capability : Capabilities, job : Jobs] \cup {NoPost}
Entries  == [job : Jobs \cup {NoJob}, command : Commands \cup {NoJob},
             expires_at : Expiries]
Slots    == Entries \cup {NoEntry}

\* Every variable and every field holds a value of its kind.
ClockInv ==
    /\ clock \in 0..MaxTime /\ up \in BOOLEAN /\ exits \in 0..MaxExits
    /\ approved \in [Commands -> Stamps]
    /\ \A c \in Commands : approved[c] <= clock

QueueType ==
    /\ status \in [Jobs -> Statuses]
    /\ binding \in [Jobs -> Commands \cup {NoJob}]
    /\ finished \in [Jobs -> 0..MaxTime \cup {Never}]
    /\ flagged \subseteq Jobs /\ runner \in Runners

MoneyType ==
    /\ consumed \subseteq Commands /\ saved \subseteq Jobs
    /\ charge \in [Jobs -> Charges]
    /\ task \in [Jobs -> Tasks]
    /\ tasks \in [Commands -> Nat]

\* An entry that waits for its job names a command approved in this process;
\* a submit() in flight holds an entry that is still there.
StoreInv ==
    /\ entries \in [Capabilities -> Slots] /\ post \in Posts
    /\ \A k \in Capabilities :
          entries[k] # NoEntry /\ entries[k].job = NoJob
             => entries[k].command \in Commands /\ approved[entries[k].command] >= 0
    /\ post # NoPost => entries[post.capability] # NoEntry

\* A process that is down keeps nothing in memory.
DownInv ==
    ~up => /\ post = NoPost /\ runner = Idle
           /\ \A k \in Capabilities : entries[k] = NoEntry

\* A job is bound from its submission on, and bound once.
BindingInv ==
    /\ \A j \in Jobs : status[j] = "fresh" <=> binding[j] = NoJob
    /\ OneJobPerCommand

\* A row outlives the plan of its command: when it is purged, the plan has
\* expired or was lost with its process, so its command cannot be posted
\* again.
AgeInv ==
    \A j \in Jobs : binding[j] # NoJob =>
        LET a == approved[binding[j]]
        IN  /\ a # Never
            /\ status[j] \in Final => /\ finished[j] \in 0..clock
                                      /\ a = Lost \/ a <= finished[j]
            /\ status[j] = "gone" => a = Lost \/ clock >= a + PlanLifetime

\* The callback belongs to a job that runs.
RunInv ==
    \/ runner = Idle
    \/ /\ runner.pc # "idle" /\ runner.job \in Jobs
       /\ status[runner.job] \in {"running", "cancel_requested"}

\* The callback ranks only a finished task, and its result is saved.
ResultInv ==
    /\ runner.pc \in {"rank", "ranked", "save"} => task[runner.job] = "done"
    /\ runner.pc = "end" /\ runner.outcome = "result" => runner.job \in saved

\* A command whose job has not reached the provider has no task yet.
TaskInv ==
    /\ OneTaskPerCommand
    /\ \A c \in Commands : (\A j \in Jobs : binding[j] # c) => tasks[c] = 0
    /\ \A j \in Jobs :
          /\ status[j] = "queued" => tasks[binding[j]] = 0
          /\ runner.job = j /\ runner.pc \in {"key", "authorize", "create"}
                => tasks[binding[j]] = 0

\* Where a saved history can be: behind a job that has begun, and behind the
\* callback only when it is over.
HistoryInv ==
    /\ SavedFromCompletedTask /\ HistoriesExplained
    /\ \A j \in saved :
          /\ status[j] \notin {"fresh", "queued"}
          /\ runner.job = j => runner.pc = "end" /\ runner.outcome = "result"
    /\ \A j \in Jobs :
          /\ status[j] = "cancel_requested" => j \in acked
          /\ status[j] = "running" => runner.job = j \/ j \in stopped

TypeInv == ClockInv /\ QueueType /\ MoneyType /\ StoreInv
JobInv  == DownInv /\ BindingInv /\ AgeInv /\ RunInv
IInv    == /\ TypeInv /\ JobInv
           /\ ResultInv /\ TaskInv /\ HistoryInv /\ ChargesClosed

-----------------------------------------------------------------------------
(* Facts about the records *)

\* A written entry is a slot that is not empty.
LEMMA EntryFacts ==
    ASSUME NEW c \in Commands \cup {NoJob}, NEW e \in Expiries,
           NEW j \in Jobs \cup {NoJob}
    PROVE  /\ Entry(c, e, j) \in Entries /\ Entry(c, e, j) # NoEntry
           /\ Entry(c, e, j).job = j /\ Entry(c, e, j).command = c
           /\ Entry(c, e, j).expires_at = e
BY DEF Entry, Entries, NoEntry

\* An entry of the store that is not empty has the fields of an entry.
LEMMA SlotFields ==
    ASSUME NEW e \in Slots, e # NoEntry
    PROVE  /\ e \in Entries /\ e.job \in Jobs \cup {NoJob}
           /\ e.expires_at \in Expiries
BY DEF Slots, Entries

\* The callback that is not there.
LEMMA IdleFacts ==
    /\ Idle \in Runners /\ Idle.pc = "idle" /\ Idle.job = NoJob
    /\ Idle.job \notin Jobs
BY ProductionAssumption, NamesAssumption DEF Idle, At, Runners, Pcs, Endings

\* A new callback.
LEMMA StartFacts ==
    ASSUME NEW j \in Jobs
    PROVE  /\ At("key", j, 0, "none") \in Runners
           /\ At("key", j, 0, "none").pc = "key"
           /\ At("key", j, 0, "none").job = j
BY ProductionAssumption DEF At, Runners, Pcs, Endings

\* A submit() in flight is not the absence of one.
LEMMA PostFacts ==
    ASSUME NEW k \in Capabilities, NEW j \in Jobs
    PROVE  /\ [capability |-> k, job |-> j] \in Posts
           /\ [capability |-> k, job |-> j] # NoPost
BY NamesAssumption DEF Posts, NoPost

\* Polls are counted from 0 to OUTSCRAPER_MAX_POLLS - 1.
LEMMA PollCounted ==
    ASSUME NEW p \in 0..(MaxPolls - 1), PollsLeft(p + 1)
    PROVE  (p % MaxPolls) + 1 \in 0..(MaxPolls - 1)
BY ProductionAssumption DEF PollsLeft

\* Where the callback goes on, it stays the callback of its job.
LEMMA GotoFacts ==
    ASSUME runner \in Runners, NEW pc \in Pcs, Goto(pc)
    PROVE  /\ runner' \in Runners
           /\ runner'.pc = pc /\ runner'.job = runner.job
           /\ runner'.polls = runner.polls /\ runner'.outcome = runner.outcome
BY DEF Goto, Runners

\* Where it ends, it says how.
LEMMA RaiseFacts ==
    ASSUME runner \in Runners, NEW how \in Endings, Raise(how)
    PROVE  /\ runner' \in Runners
           /\ runner'.pc = "end" /\ runner'.job = runner.job
           /\ runner'.polls = runner.polls /\ runner'.outcome = how
BY DEF Raise, Runners, Pcs

\* Expired entries are emptied, the others are left alone.
LEMMA LiveFacts ==
    ASSUME entries \in [Capabilities -> Slots], NEW now
    PROVE  /\ Live(now) \in [Capabilities -> Slots]
           /\ \A k \in Capabilities : Live(now)[k] \in {entries[k], NoEntry}
BY DEF Live, Slots

\* A provider's reply is a success only when its task is done.
LEMMA SuccessIsDone ==
    ASSUME NEW t, "success" \in Outcomes(t) \cup FirstOutcomes(t)
    PROVE  t = "done"
<1>1. \A r \in Replies : Outcome(r) = "success" => r.state = "success"
  BY DEF Outcome, TaskStatus
<1>2. QED
  BY <1>1 DEF Outcomes, FirstOutcomes, Truthful

-----------------------------------------------------------------------------
(* The submission store: one lemma per operation, one step per part of the *)
(* invariant that the operation can disturb.                               *)

\* A command that is approved now was neither posted nor bound before.
LEMMA ApproveKeeps ==
    ASSUME IInv, NEW c \in Commands, Approve(c)
    PROVE  IInv'
<1> USE DEF IInv, TypeInv, JobInv
<1>1. ClockInv'
  BY DEF Approve, store, jobs, ledger, world, notes, ClockInv, Stamps, Never,
         Lost
<1>2. StoreInv'
  BY DEF Approve, store, jobs, ledger, world, notes, StoreInv, ClockInv,
         Stamps, Never, Lost, DownInv
<1>3. AgeInv'
  BY DEF Approve, store, jobs, ledger, world, notes, AgeInv, ClockInv, Stamps,
         Never, Lost, QueueType, Statuses, Unfinished, Final
<1>4. (QueueType /\ MoneyType /\ DownInv /\ BindingInv /\ RunInv /\ ResultInv
      /\ TaskInv /\ HistoryInv /\ ChargesClosed)'
  BY DEF Approve, store, jobs, ledger, world, notes, QueueType, Statuses,
         Unfinished, Final, MoneyType, Charges, Tasks, DownInv, BindingInv,
         OneJobPerCommand, RunInv, ResultInv, TaskInv, OneTaskPerCommand,
         HistoryInv, SavedFromCompletedTask, HistoriesExplained,
         SucceededHasHistory, OrphanExplained, ChargesClosed
<1>5. QED
  BY <1>1, <1>2, <1>3, <1>4

\* register() fills a slot for a command of this process.
LEMMA RegisterKeeps ==
    ASSUME IInv, NEW c \in Commands, NEW k \in Capabilities,
           NEW d \in Delays, Register(c, k, d)
    PROVE  IInv'
<1> USE DEF IInv, TypeInv, JobInv
<1>1. clock + d \in Expiries
  BY ProductionAssumption
     DEF Register, store, jobs, ledger, world, notes, ClockInv, Stamps, Never,
         Lost, Expiries
<1>2. /\ Entry(c, clock + d, NoJob) \in Slots
      /\ Entry(c, clock + d, NoJob).command = c
  BY <1>1, EntryFacts
     DEF Register, store, jobs, ledger, world, notes, Slots
<1>3. /\ Live(clock) \in [Capabilities -> Slots]
      /\ \A i \in Capabilities : Live(clock)[i] \in {entries[i], NoEntry}
  BY LiveFacts
     DEF Register, store, jobs, ledger, world, notes, StoreInv
<1>4. StoreInv'
  BY <1>2, <1>3
     DEF Register, store, jobs, ledger, world, notes, StoreInv, ClockInv,
         Stamps, Never, Lost
<1>5. DownInv'
  BY DEF Register, store, jobs, ledger, world, notes, DownInv
<1>6. (ClockInv /\ QueueType /\ MoneyType /\ BindingInv /\ AgeInv /\ RunInv /\
      ResultInv /\ TaskInv /\ HistoryInv /\ ChargesClosed)'
  BY DEF Register, store, jobs, ledger, world, notes, ClockInv, Stamps, Never,
         Lost, QueueType, Statuses, Unfinished, Final, MoneyType, Charges,
         Tasks, BindingInv, OneJobPerCommand, AgeInv, RunInv, ResultInv,
         TaskInv, OneTaskPerCommand, HistoryInv, SavedFromCompletedTask,
         HistoriesExplained, SucceededHasHistory, OrphanExplained,
         ChargesClosed
<1>7. QED
  BY <1>4, <1>5, <1>6

\* submit() of the store binds a fresh job only when no row of the command is
\* kept, and then no job was ever bound to it: a purged row's command is past
\* its plan.
LEMMA PostKeeps ==
    ASSUME IInv, NEW k \in Capabilities, Post(k)
    PROVE  IInv'
<1> USE DEF IInv, TypeInv, JobInv
<1> DEFINE entry == entries'[k]
<1>1. /\ entries' \in [Capabilities -> Slots]
      /\ \A i \in Capabilities : entries'[i] \in {entries[i], NoEntry}
  BY LiveFacts DEF Post, StoreInv
<1>2. /\ up /\ post = NoPost
      /\ UNCHANGED <<clock, up, approved, issued, finished, flagged, runner,
                     ledger, world, notes>>
  BY DEF Post
<1>3. CASE UNCHANGED <<status, binding, post>>
  <2>1. StoreInv'
    BY <1>1, <1>2, <1>3 DEF StoreInv
  <2>2. (ClockInv /\ QueueType /\ MoneyType /\ DownInv /\ BindingInv /\ AgeInv
        /\ RunInv)'
    BY <1>2, <1>3
       DEF ledger, world, notes, ClockInv, QueueType, MoneyType, DownInv,
           BindingInv, OneJobPerCommand, AgeInv, RunInv
  <2>3. (ResultInv /\ TaskInv /\ HistoryInv /\ ChargesClosed)'
    BY <1>2, <1>3
       DEF ledger, world, notes, ResultInv, TaskInv, OneTaskPerCommand,
           HistoryInv, SavedFromCompletedTask, HistoriesExplained,
           SucceededHasHistory, OrphanExplained, ChargesClosed
  <2>4. QED
    BY <2>1, <2>2, <2>3
<1>4. ASSUME entry # NoEntry, entry.job = NoJob, Acceptable(entry.command),
             NEW j \in IF Existing(entry.command) # {}
                       THEN Existing(entry.command)
                       ELSE {i \in Jobs : status[i] = "fresh"},
             status' = [status EXCEPT ![j] = IF @ = "fresh" THEN "queued" ELSE @],
             binding' = [binding EXCEPT ![j] = entry.command],
             post' = [capability |-> k, job |-> j]
      PROVE  IInv'
  <2> DEFINE c == entry.command
  <2>1. /\ c \in Commands /\ c # NoJob
        /\ approved[c] \in 0..clock /\ clock < approved[c] + PlanLifetime
    BY <1>1, <1>4, NamesAssumption
       DEF StoreInv, Acceptable, ClockInv, Stamps, Never, Lost
  <2>2. j \in Jobs
    BY <1>4 DEF Existing, SameBinding
  <2>3. StoreInv'
    BY <1>1, <1>2, <1>4, <2>2, PostFacts DEF StoreInv
  <2> HIDE DEF entry
  <2>4. CASE status[j] # "fresh"
    <3>1. binding[j] = c
      BY <1>4, <2>4 DEF Existing, SameBinding
    <3>2. UNCHANGED <<status, binding>>
      BY <1>4, <2>4, <3>1 DEF QueueType
    <3>3. (ClockInv /\ QueueType /\ MoneyType /\ DownInv /\ BindingInv
          /\ AgeInv /\ RunInv)'
      BY <1>2, <3>2
         DEF ledger, world, notes, ClockInv, QueueType, MoneyType, DownInv,
             BindingInv, OneJobPerCommand, AgeInv, RunInv
    <3>4. (ResultInv /\ TaskInv /\ HistoryInv /\ ChargesClosed)'
      BY <1>2, <3>2
         DEF ledger, world, notes, ResultInv, TaskInv, OneTaskPerCommand,
             HistoryInv, SavedFromCompletedTask, HistoriesExplained,
             SucceededHasHistory, OrphanExplained, ChargesClosed
    <3>5. QED
      BY <2>3, <3>3, <3>4
  <2>5. CASE status[j] = "fresh"
    <3>1. \A i \in Jobs : binding[i] # c
      <4>1. SUFFICES ASSUME NEW i \in Jobs, binding[i] = c PROVE FALSE
        OBVIOUS
      <4>2. status[i] # "fresh"
        BY <2>1, <4>1 DEF BindingInv
      <4>3. status[i] # "gone"
        BY <2>1, <4>1, ProductionAssumption DEF AgeInv, Lost, ClockInv
      <4>4. Existing(c) # {}
        BY <4>1, <4>2, <4>3 DEF Existing, SameBinding
      <4>5. QED
        BY <1>4, <2>5, <4>4 DEF Existing, SameBinding
    <3>2. tasks[c] = 0
      BY <2>1, <3>1 DEF TaskInv
    <3> HIDE DEF c
    <3>3. /\ status' = [status EXCEPT ![j] = "queued"]
          /\ binding' = [binding EXCEPT ![j] = c]
      BY <1>4, <2>5 DEF c
    <3>4. (ClockInv /\ QueueType /\ MoneyType /\ DownInv)'
      BY <1>2, <2>1, <2>2, <3>3
         DEF ledger, world, notes, ClockInv, QueueType, MoneyType, DownInv,
             Statuses, Unfinished
    <3>5. BindingInv'
      BY <2>1, <2>2, <3>1, <3>3 DEF BindingInv, OneJobPerCommand, QueueType
    <3>6. AgeInv'
      BY <1>2, <2>1, <2>2, <3>3
         DEF AgeInv, QueueType, Final, Never, ClockInv
    <3>7. runner.job # j /\ j \notin saved
      BY <2>2, <2>5, IdleFacts DEF RunInv, HistoryInv
    <3>8. (RunInv /\ ResultInv /\ ChargesClosed)'
      BY <1>2, <2>2, <3>3, <3>7
         DEF ledger, world, QueueType, RunInv, ResultInv, ChargesClosed
    <3>9. TaskInv'
      <4>1. /\ \A i \in Jobs \ {j} : binding'[i] = binding[i] /\ status'[i] = status[i]
            /\ binding'[j] = c /\ status'[j] = "queued" /\ binding[j] = NoJob
        BY <2>2, <2>5, <3>3 DEF QueueType, BindingInv
      <4>2. \A d \in Commands : (\A i \in Jobs : binding'[i] # d) => tasks[d] = 0
        BY <2>1, <2>2, <4>1, NamesAssumption DEF TaskInv
      <4>3. QED
        BY <1>2, <3>2, <3>7, <4>1, <4>2 DEF world, TaskInv, OneTaskPerCommand
    <3>10. HistoryInv'
      BY <1>2, <2>2, <3>3, <3>7
         DEF world, notes, QueueType, HistoryInv, SavedFromCompletedTask,
             HistoriesExplained, SucceededHasHistory, OrphanExplained
    <3>11. QED
      BY <2>3, <3>4, <3>5, <3>6, <3>8, <3>9, <3>10
  <2>6. QED
    BY <2>4, <2>5
<1>5. QED
  BY <1>3, <1>4 DEF Post

\* The job is recorded in the entry the call still holds.
LEMMA PostRecordedKeeps ==
    ASSUME IInv, PostRecorded
    PROVE  IInv'
<1> USE DEF IInv, TypeInv, JobInv
<1>1. StoreInv'
  BY EntryFacts, SlotFields, NamesAssumption
     DEF PostRecorded, store, jobs, ledger, world, notes, StoreInv, ClockInv,
         Stamps, Never, Lost, Posts, NoPost, Slots
<1>2. DownInv'
  BY DEF PostRecorded, store, jobs, ledger, world, notes, DownInv
<1>3. (ClockInv /\ QueueType /\ MoneyType /\ BindingInv /\ AgeInv /\ RunInv /\
      ResultInv /\ TaskInv /\ HistoryInv /\ ChargesClosed)'
  BY DEF PostRecorded, store, jobs, ledger, world, notes, ClockInv, Stamps,
         Never, Lost, QueueType, Statuses, Unfinished, Final, MoneyType,
         Charges, Tasks, BindingInv, OneJobPerCommand, AgeInv, RunInv,
         ResultInv, TaskInv, OneTaskPerCommand, HistoryInv,
         SavedFromCompletedTask, HistoriesExplained, SucceededHasHistory,
         OrphanExplained, ChargesClosed
<1>4. QED
  BY <1>1, <1>2, <1>3

\* The entry still holds its command.
LEMMA PostRaisedKeeps ==
    ASSUME IInv, PostRaised
    PROVE  IInv'
<1> USE DEF IInv, TypeInv, JobInv
<1>1. StoreInv'
  BY DEF PostRaised, store, jobs, ledger, world, notes, StoreInv, Posts
<1>2. DownInv'
  BY DEF PostRaised, store, jobs, ledger, world, notes, DownInv
<1>3. (ClockInv /\ QueueType /\ MoneyType /\ BindingInv /\ AgeInv /\ RunInv /\
      ResultInv /\ TaskInv /\ HistoryInv /\ ChargesClosed)'
  BY DEF PostRaised, store, jobs, ledger, world, notes, ClockInv, Stamps,
         Never, Lost, QueueType, Statuses, Unfinished, Final, MoneyType,
         Charges, Tasks, BindingInv, OneJobPerCommand, AgeInv, RunInv,
         ResultInv, TaskInv, OneTaskPerCommand, HistoryInv,
         SavedFromCompletedTask, HistoriesExplained, SucceededHasHistory,
         OrphanExplained, ChargesClosed
<1>4. QED
  BY <1>1, <1>2, <1>3

-----------------------------------------------------------------------------
(* The job queue and the provider *)

\* Only an accepted cancellation asks a running job to stop; a queued one is
\* cancelled at once.
LEMMA CancelJobKeeps ==
    ASSUME IInv, NEW j \in Jobs, CancelJob(j)
    PROVE  IInv'
<1> USE DEF IInv, TypeInv, JobInv
<1>1. QueueType'
  BY DEF CancelJob, store, ledger, world, QueueType, Statuses, Unfinished,
         Final, ClockInv, Stamps, Never, Lost
<1>2. AgeInv'
  BY DEF CancelJob, store, ledger, world, AgeInv, ClockInv, Stamps, Never,
         Lost, QueueType, Statuses, Unfinished, Final
<1>3. (BindingInv /\ RunInv /\ DownInv)'
  BY DEF CancelJob, store, ledger, world, BindingInv, OneJobPerCommand,
         RunInv, DownInv, QueueType, Statuses, Unfinished, Final
<1>4. (TaskInv /\ HistoryInv)'
  BY DEF CancelJob, store, ledger, world, TaskInv, OneTaskPerCommand,
         HistoryInv, SavedFromCompletedTask, HistoriesExplained,
         SucceededHasHistory, OrphanExplained, QueueType, Statuses,
         Unfinished, Final
<1>5. (ClockInv /\ MoneyType /\ StoreInv /\ DownInv /\ BindingInv /\ RunInv /\
      ResultInv /\ TaskInv /\ HistoryInv /\ ChargesClosed)'
  BY DEF CancelJob, store, ledger, world, ClockInv, Stamps, Never, Lost,
         MoneyType, Charges, Tasks, StoreInv, DownInv, BindingInv,
         OneJobPerCommand, RunInv, ResultInv, TaskInv, OneTaskPerCommand,
         HistoryInv, SavedFromCompletedTask, HistoriesExplained,
         SucceededHasHistory, OrphanExplained, ChargesClosed
<1>6. QED
  BY <1>1, <1>2, <1>5

\* The event of a running job is set.
LEMMA SignalCancelKeeps ==
    ASSUME IInv, NEW j \in Jobs, SignalCancel(j)
    PROVE  IInv'
<1> USE DEF IInv, TypeInv, JobInv
<1>1. (ClockInv /\ QueueType /\ MoneyType /\ StoreInv /\ DownInv /\ BindingInv
      /\ AgeInv /\ RunInv /\ ResultInv /\ TaskInv /\ HistoryInv /\
      ChargesClosed)'
  BY DEF SignalCancel, store, jobs, ledger, world, notes, ClockInv, Stamps,
         Never, Lost, QueueType, Statuses, Unfinished, Final, MoneyType,
         Charges, Tasks, StoreInv, DownInv, BindingInv, OneJobPerCommand,
         AgeInv, RunInv, ResultInv, TaskInv, OneTaskPerCommand, HistoryInv,
         SavedFromCompletedTask, HistoriesExplained, SucceededHasHistory,
         OrphanExplained, ChargesClosed
<1>2. QED
  BY <1>1

\* A queued job times out: it has no history and no callback.
LEMMA ExpireQueuedKeeps ==
    ASSUME IInv, NEW j \in Jobs, ExpireQueued(j)
    PROVE  IInv'
<1> USE DEF IInv, TypeInv, JobInv
<1>1. QueueType'
  BY DEF ExpireQueued, store, jobs, ledger, world, notes, QueueType, Statuses,
         Unfinished, Final, ClockInv, Stamps, Never, Lost
<1>2. AgeInv'
  BY DEF ExpireQueued, store, jobs, ledger, world, notes, AgeInv, ClockInv,
         Stamps, Never, Lost, QueueType, Statuses, Unfinished, Final
<1>3. (ClockInv /\ MoneyType /\ StoreInv /\ DownInv /\ BindingInv /\ RunInv /\
      ResultInv /\ TaskInv /\ HistoryInv /\ ChargesClosed)'
  BY DEF ExpireQueued, store, jobs, ledger, world, notes, ClockInv, Stamps,
         Never, Lost, MoneyType, Charges, Tasks, StoreInv, DownInv,
         BindingInv, OneJobPerCommand, RunInv, ResultInv, TaskInv,
         OneTaskPerCommand, HistoryInv, SavedFromCompletedTask,
         HistoriesExplained, SucceededHasHistory, OrphanExplained,
         ChargesClosed
<1>4. QED
  BY <1>1, <1>2, <1>3

\* A row is purged when the retention has passed since its end, and by then
\* its plan has expired, because the retention is longer.
LEMMA ForgetJobKeeps ==
    ASSUME IInv, NEW j \in Jobs, ForgetJob(j)
    PROVE  IInv'
<1> USE DEF IInv, TypeInv, JobInv
<1>1. AgeInv'
  BY ProductionAssumption
     DEF ForgetJob, store, jobs, ledger, world, notes, AgeInv, ClockInv,
         Stamps, Never, Lost, QueueType, Statuses, Unfinished, Final
<1>2. (ClockInv /\ QueueType /\ MoneyType /\ StoreInv /\ DownInv /\ BindingInv
      /\ RunInv /\ ResultInv /\ TaskInv /\ HistoryInv /\ ChargesClosed)'
  BY DEF ForgetJob, store, jobs, ledger, world, notes, ClockInv, Stamps,
         Never, Lost, QueueType, Statuses, Unfinished, Final, MoneyType,
         Charges, Tasks, StoreInv, DownInv, BindingInv, OneJobPerCommand,
         RunInv, ResultInv, TaskInv, OneTaskPerCommand, HistoryInv,
         SavedFromCompletedTask, HistoriesExplained, SucceededHasHistory,
         OrphanExplained, ChargesClosed
<1>3. QED
  BY <1>1, <1>2

\* The worker takes a queued job whose command has no task yet.
LEMMA StartJobKeeps ==
    ASSUME IInv, NEW j \in Jobs, StartJob(j)
    PROVE  IInv'
<1> USE DEF IInv, TypeInv, JobInv
<1>1. /\ runner' \in Runners /\ runner'.pc = "key" /\ runner'.job = j
      /\ runner.job # j /\ runner.pc = "idle" /\ runner.job \notin Jobs
  BY StartFacts, IdleFacts
     DEF StartJob, store, jobs, ledger, world, notes
<1>2. QueueType'
  BY <1>1
     DEF StartJob, store, jobs, ledger, world, notes, QueueType, Statuses,
         Unfinished, Final
<1>3. RunInv'
  BY <1>1
     DEF StartJob, store, jobs, ledger, world, notes, RunInv, QueueType,
         Statuses, Unfinished, Final
<1>4. ResultInv'
  BY <1>1
     DEF StartJob, store, jobs, ledger, world, notes, ResultInv
<1>5. TaskInv'
  BY <1>1
     DEF StartJob, store, jobs, ledger, world, notes, TaskInv,
         OneTaskPerCommand, QueueType, Statuses, Unfinished, Final
<1>6. HistoryInv'
  BY <1>1
     DEF StartJob, store, jobs, ledger, world, notes, HistoryInv,
         SavedFromCompletedTask, HistoriesExplained, SucceededHasHistory,
         OrphanExplained, QueueType, Statuses, Unfinished, Final
<1>7. ChargesClosed'
  BY <1>1
     DEF StartJob, store, jobs, ledger, world, notes, ChargesClosed
<1>8. AgeInv'
  BY DEF StartJob, store, jobs, ledger, world, notes, AgeInv, QueueType,
         Statuses, Unfinished, Final
<1>9. (ClockInv /\ MoneyType /\ StoreInv /\ DownInv /\ BindingInv)'
  BY <1>1
     DEF StartJob, store, jobs, ledger, world, notes, ClockInv, Stamps, Never,
         Lost, MoneyType, Charges, Tasks, StoreInv, DownInv, BindingInv,
         OneJobPerCommand, QueueType
<1>10. QED
  BY <1>2, <1>3, <1>4, <1>5, <1>6, <1>7, <1>8, <1>9

\* The provider settles a pending task; the callback has moved on only from a
\* finished one.
LEMMA ProviderCompletesKeeps ==
    ASSUME IInv, NEW j \in Jobs, ProviderCompletes(j)
    PROVE  IInv'
<1> USE DEF IInv, TypeInv, JobInv
<1>1. (ClockInv /\ QueueType /\ MoneyType /\ StoreInv /\ DownInv /\ BindingInv
      /\ AgeInv /\ RunInv /\ ResultInv /\ TaskInv /\ HistoryInv /\
      ChargesClosed)'
  BY DEF ProviderCompletes, store, jobs, ledger, notes, ClockInv, Stamps,
         Never, Lost, QueueType, Statuses, Unfinished, Final, MoneyType,
         Charges, Tasks, StoreInv, DownInv, BindingInv, OneJobPerCommand,
         AgeInv, RunInv, ResultInv, TaskInv, OneTaskPerCommand, HistoryInv,
         SavedFromCompletedTask, HistoriesExplained, SucceededHasHistory,
         OrphanExplained, ChargesClosed
<1>2. QED
  BY <1>1

-----------------------------------------------------------------------------
(* The clock and the process *)

\* Time passes.
LEMMA TickKeeps ==
    ASSUME IInv, Tick
    PROVE  IInv'
<1> USE DEF IInv, TypeInv, JobInv
<1>1. ClockInv'
  BY ProductionAssumption
     DEF Tick, store, jobs, ledger, world, notes, ClockInv, Stamps, Never,
         Lost
<1>2. AgeInv'
  BY ProductionAssumption
     DEF Tick, store, jobs, ledger, world, notes, AgeInv, ClockInv, Stamps,
         Never, Lost, QueueType, Statuses, Unfinished, Final
<1>3. (QueueType /\ MoneyType /\ StoreInv /\ DownInv /\ BindingInv /\ RunInv
      /\ ResultInv /\ TaskInv /\ HistoryInv /\ ChargesClosed)'
  BY DEF Tick, store, jobs, ledger, world, notes, QueueType, Statuses,
         Unfinished, Final, MoneyType, Charges, Tasks, StoreInv, DownInv,
         BindingInv, OneJobPerCommand, RunInv, ResultInv, TaskInv,
         OneTaskPerCommand, HistoryInv, SavedFromCompletedTask,
         HistoriesExplained, SucceededHasHistory, OrphanExplained,
         ChargesClosed
<1>4. QED
  BY <1>1, <1>2, <1>3

\* The end of the process: memory is gone, and every approval with it.
LEMMA ExitKeeps ==
    ASSUME IInv, Exit
    PROVE  IInv'
<1> USE DEF IInv, TypeInv, JobInv
<1>1. approved' \in [Commands -> {Never, Lost}]
  BY DEF Exit, J, world
<1>2. \A c \in Commands : approved'[c] <= clock
  BY <1>1
     DEF Exit, J, world, ClockInv, Stamps, Never, Lost
<1>3. up' \in BOOLEAN /\ clock' \in 0..MaxTime
  BY DEF Exit, J, world, ClockInv, Stamps, Never, Lost
<1>4. exits' \in 0..MaxExits
  BY ProductionAssumption
     DEF Exit, J, world, ClockInv, Stamps, Never, Lost
<1>5. ClockInv'
  BY <1>1, <1>2, <1>3, <1>4
     DEF Exit, J, world, ClockInv, Stamps, Never, Lost
<1>6. StoreInv'
  BY DEF Exit, J, world, StoreInv, Slots, Posts
<1>7. QueueType'
  BY IdleFacts
     DEF Exit, J, world, QueueType, Statuses, Unfinished, Final
<1>8. DownInv'
  BY DEF Exit, J, world, DownInv
<1>9. AgeInv'
  BY IdleFacts
     DEF Exit, J, world, AgeInv, ClockInv, Stamps, Never, Lost, QueueType,
         Statuses, Unfinished, Final
<1>10. runner'.job \notin Jobs
  BY IdleFacts
     DEF Exit, J, world
<1>11. \A i \in Jobs : status[i] = "running" => i \in stopped'
  BY IdleFacts
     DEF Exit, J, world, HistoryInv, SavedFromCompletedTask,
         HistoriesExplained, SucceededHasHistory, OrphanExplained
<1>12. HistoryInv'
  BY <1>10, <1>11
     DEF Exit, J, world, HistoryInv, SavedFromCompletedTask,
         HistoriesExplained, SucceededHasHistory, OrphanExplained, MoneyType,
         Charges, Tasks
<1>13. ChargesClosed'
  BY DEF Exit, J, world, ChargesClosed
<1>14. (MoneyType /\ BindingInv /\ RunInv /\ ResultInv /\ TaskInv)'
  BY IdleFacts
     DEF Exit, J, world, MoneyType, Charges, Tasks, BindingInv,
         OneJobPerCommand, RunInv, ResultInv, TaskInv, OneTaskPerCommand
<1>15. QED
  BY <1>5, <1>6, <1>7, <1>8, <1>9, <1>12, <1>13, <1>14

\* recover_interrupted settles every unfinished row; none of them has a
\* callback.
LEMMA RestartKeeps ==
    ASSUME IInv, Restart
    PROVE  IInv'
<1> USE DEF IInv, TypeInv, JobInv
<1>1. QueueType'
  BY ProductionAssumption
     DEF Restart, Recovered, store, ledger, world, notes, QueueType, Statuses,
         Unfinished, Final, ClockInv, Stamps, Never, Lost
<1>2. AgeInv'
  BY DEF Restart, Recovered, store, ledger, world, notes, AgeInv, ClockInv,
         Stamps, Never, Lost, QueueType, Statuses, Unfinished, Final
<1>3. RunInv'
  BY DEF Restart, Recovered, store, ledger, world, notes, RunInv, DownInv
<1>4. (ClockInv /\ MoneyType /\ StoreInv /\ DownInv /\ BindingInv /\ ResultInv
      /\ TaskInv /\ HistoryInv /\ ChargesClosed)'
  BY IdleFacts
     DEF Restart, Recovered, store, ledger, world, notes, ClockInv, Stamps,
         Never, Lost, MoneyType, Charges, Tasks, StoreInv, DownInv,
         BindingInv, OneJobPerCommand, ResultInv, TaskInv, OneTaskPerCommand,
         HistoryInv, SavedFromCompletedTask, HistoriesExplained,
         SucceededHasHistory, OrphanExplained, ChargesClosed
<1>5. QED
  BY <1>1, <1>2, <1>3, <1>4

-----------------------------------------------------------------------------
(* The job callback *)

\* The callback's job, while it runs.
LEMMA CallbackJob ==
    ASSUME IInv, runner.pc # "idle"
    PROVE  /\ runner \in Runners /\ J \in Jobs
           /\ status[J] \in {"running", "cancel_requested"}
           /\ binding[J] \in Commands
<1>1. runner # Idle
  BY IdleFacts
<1>2. /\ runner \in Runners /\ J \in Jobs
      /\ status[J] \in {"running", "cancel_requested"}
  BY <1>1 DEF IInv, TypeInv, JobInv, QueueType, RunInv, J
<1>3. binding[J] \in Commands
  BY <1>2 DEF IInv, TypeInv, JobInv, QueueType, BindingInv
<1>4. QED
  BY <1>2, <1>3

\* A step of the callback that creates no task keeps the invariant when it
\* stays with its job, goes towards the provider no further than it was,
\* ranks only a finished task, leaves no charge open behind the polls and
\* saves a history only as its last act.
LEMMA CallbackKeeps ==
    ASSUME IInv, up, runner.pc # "idle", RunnerFrame,
           UNCHANGED <<status, finished, task, tasks>>,
           runner' \in Runners, runner'.job = J, runner'.pc # "idle",
           runner'.pc \in {"key", "authorize", "create"}
              => runner.pc \in {"key", "authorize", "create"},
           runner'.pc \in {"rank", "ranked", "save"} => task[J] = "done",
           consumed' \subseteq Commands, charge' \in [Jobs -> Charges],
           \A j \in Jobs : charge'[j] = "started"
              => j = J /\ runner'.pc \in {"create", "poll"},
           saved' = IF runner'.pc = "end" /\ runner'.outcome = "result"
                    THEN saved \cup {J} ELSE saved,
           J \notin saved, runner.pc = "save" => task[J] = "done",
           runner'.pc = "end" /\ runner'.outcome = "result" => runner.pc = "save"
    PROVE  IInv'
<1> USE DEF IInv, TypeInv, JobInv
<1>1. /\ J \in Jobs /\ runner'.job \in Jobs /\ runner' # Idle
      /\ status[J] \in {"running", "cancel_requested"}
  BY CallbackJob, IdleFacts
<1>2. saved \subseteq saved' /\ saved' \subseteq saved \cup {J}
  OBVIOUS
<1>3. (ClockInv /\ QueueType /\ MoneyType)'
  BY <1>1, <1>2 DEF RunnerFrame, ClockInv, QueueType, MoneyType
<1>4. (StoreInv /\ DownInv /\ BindingInv /\ AgeInv)'
  BY DEF RunnerFrame, store, ClockInv, StoreInv, DownInv, BindingInv,
         OneJobPerCommand, AgeInv
<1>5. (RunInv /\ ResultInv)'
  BY <1>1 DEF RunInv, ResultInv
<1>6. TaskInv'
  BY <1>1 DEF RunnerFrame, TaskInv, OneTaskPerCommand, J
<1>7. HistoryInv'
  <2>1. (SavedFromCompletedTask /\ HistoriesExplained)'
    BY <1>1, <1>2
       DEF RunnerFrame, HistoryInv, SavedFromCompletedTask, HistoriesExplained,
           SucceededHasHistory, OrphanExplained
  <2>2. \A j \in saved' :
          /\ status'[j] \notin {"fresh", "queued"}
          /\ runner'.job = j => runner'.pc = "end" /\ runner'.outcome = "result"
    BY <1>1 DEF HistoryInv
  <2>3. \A j \in Jobs :
          /\ status'[j] = "cancel_requested" => j \in acked'
          /\ status'[j] = "running" => runner'.job = j \/ j \in stopped'
    BY DEF RunnerFrame, HistoryInv, J
  <2>4. QED
    BY <2>1, <2>2, <2>3 DEF HistoryInv
<1>8. ChargesClosed'
  BY DEF ChargesClosed
<1>9. QED
  BY <1>3, <1>4, <1>5, <1>6, <1>7, <1>8

\* Before its end the callback has no history and an open charge only at the
\* provider.
LEMMA CallbackFacts ==
    ASSUME IInv, runner.pc \notin {"idle", "end"}
    PROVE  /\ J \notin saved /\ saved \subseteq Jobs /\ consumed \subseteq Commands
           /\ charge \in [Jobs -> Charges]
           /\ \A j \in Jobs : charge[j] = "started"
                 => j = J /\ runner.pc \in {"create", "poll"}
           /\ runner.pc \in {"rank", "ranked", "save"} => task[J] = "done"
BY DEF IInv, TypeInv, MoneyType, HistoryInv, ChargesClosed, ResultInv, J

\* The checkpoint and the key: the callback goes on or raises.
LEMMA LoadKeyKeeps ==
    ASSUME IInv, LoadKey
    PROVE  IInv'
<1>1. /\ runner' \in Runners /\ runner'.job = J
      /\ runner'.pc \in {"authorize", "end"}
      /\ runner'.pc = "end" => runner'.outcome # "result"
  BY CallbackJob, GotoFacts, RaiseFacts DEF LoadKey, Pcs, Endings, J
<1>2. QED
  BY <1>1, CallbackKeeps, CallbackFacts
     DEF LoadKey, ledger, world

\* Ranking.
LEMMA RankKeeps ==
    ASSUME IInv, Rank
    PROVE  IInv'
<1>1. /\ runner' \in Runners /\ runner'.job = J
      /\ runner'.pc \in {"ranked", "end"}
      /\ runner'.pc = "end" => runner'.outcome # "result"
  BY CallbackJob, GotoFacts, RaiseFacts DEF Rank, Pcs, Endings, J
<1>2. QED
  BY <1>1, CallbackKeeps, CallbackFacts
     DEF Rank, ledger, world

\* The checkpoint before the snapshot is saved.
LEMMA RankedKeeps ==
    ASSUME IInv, Ranked
    PROVE  IInv'
<1>1. /\ runner' \in Runners /\ runner'.job = J
      /\ runner'.pc \in {"save", "end"}
      /\ runner'.pc = "end" => runner'.outcome # "result"
  BY CallbackJob, GotoFacts, RaiseFacts DEF Ranked, Pcs, Endings, J
<1>2. QED
  BY <1>1, CallbackKeeps, CallbackFacts
     DEF Ranked, ledger, world

\* A history is saved, or nothing is left behind.
LEMMA SaveHistoryKeeps ==
    ASSUME IInv, SaveHistory
    PROVE  IInv'
<1>1. /\ runner' \in Runners /\ runner'.job = J /\ runner'.pc = "end"
      /\ saved' = IF runner'.outcome = "result" THEN saved \cup {J} ELSE saved
  BY CallbackJob, RaiseFacts
     DEF SaveHistory, SaveRefused, ThenResult, Endings, J
<1>2. QED
  BY <1>1, CallbackKeeps, CallbackFacts DEF SaveHistory, ledger

\* The approval is consumed and one charge opened, or nothing is.
LEMMA AuthorizeKeeps ==
    ASSUME IInv, Authorize
    PROVE  IInv'
<1>1. /\ runner' \in Runners /\ runner'.job = J
      /\ runner'.pc \in {"create", "end"}
      /\ runner'.pc = "end" => runner'.outcome # "result" /\ UNCHANGED ledger
      /\ runner'.pc = "create" => /\ consumed' = consumed \cup {binding[J]}
                                  /\ charge' = [charge EXCEPT ![J] = "started"]
  BY CallbackJob, GotoFacts, RaiseFacts DEF Authorize, Pcs, Endings, J
<1>2. /\ consumed' \subseteq Commands /\ charge' \in [Jobs -> Charges]
      /\ \A j \in Jobs : charge'[j] = "started" => j = J /\ runner'.pc = "create"
  BY <1>1, CallbackJob, CallbackFacts DEF Authorize, ledger, Charges
<1>3. QED
  BY <1>1, <1>2, CallbackKeeps, CallbackFacts DEF Authorize, world

\* Succeeding and failing both close the charge of the callback's job.
LEMMA FinishFacts ==
    ASSUME IInv, runner.pc \in {"create", "poll"}, Succeed \/ Fail
    PROVE  /\ runner' \in Runners /\ runner'.job = J
           /\ Succeed => runner'.pc = "rank"
           /\ Fail => runner'.pc = "end" /\ runner'.outcome = "error"
           /\ charge' \in [Jobs -> Charges]
           /\ \A j \in Jobs : charge'[j] # "started"
<1>1. /\ runner' \in Runners /\ runner'.job = J
      /\ Succeed => runner'.pc = "rank"
      /\ Fail => runner'.pc = "end" /\ runner'.outcome = "error"
  BY CallbackJob, GotoFacts, RaiseFacts DEF Succeed, Fail, Pcs, Endings, J
<1>2. charge' \in [Jobs -> Charges] /\ \A j \in Jobs : charge'[j] # "started"
  BY CallbackJob, CallbackFacts DEF Succeed, Fail, FinishUsage, Charges
<1>3. QED
  BY <1>1, <1>2

\* A poll succeeds on a finished task only; the last one gives up.
LEMMA PollKeeps ==
    ASSUME IInv, Poll
    PROVE  IInv'
<1>1. up /\ runner.pc = "poll" /\ RunnerFrame
      /\ UNCHANGED <<status, finished, consumed, task, tasks, saved>>
  BY DEF Poll, world
<1>2. CASE "success" \in Outcomes(task[J]) /\ Succeed
  BY <1>1, <1>2, FinishFacts, SuccessIsDone, CallbackFacts, CallbackKeeps
<1>3. CASE Fail
  BY <1>1, <1>3, FinishFacts, CallbackFacts, CallbackKeeps
<1>4. CASE /\ PollsLeft(runner.polls + 1)
           /\ runner' = [runner EXCEPT !.polls = (@ % MaxPolls) + 1]
           /\ UNCHANGED charge
  <2>1. /\ runner' \in Runners /\ runner'.job = J /\ runner'.pc = "poll"
    BY <1>1, <1>4, CallbackJob, PollCounted DEF Runners, J
  <2>2. QED
    BY <1>1, <1>4, <2>1, CallbackFacts, CallbackKeeps
<1>5. QED
  BY <1>2, <1>3, <1>4 DEF Poll, GiveUp

\* The one request that creates the task of a command that had none.
LEMMA CreateTaskKeeps ==
    ASSUME IInv, CreateTask
    PROVE  IInv'
<1>1. up /\ runner.pc = "create" /\ RunnerFrame
      /\ UNCHANGED <<status, finished, consumed, saved>>
  BY DEF CreateTask
<1>2. CASE Fail /\ UNCHANGED <<task, tasks>>
  BY <1>1, <1>2, FinishFacts, CallbackFacts, CallbackKeeps
<1>3. ASSUME NEW t \in {"pending", "done", "failed"},
             task' = [task EXCEPT ![J] = t],
             tasks' = [tasks EXCEPT ![binding[J]] = @ + 1],
             \/ Fail
             \/ "success" \in FirstOutcomes(t) /\ Succeed
             \/ /\ "pending" \in FirstOutcomes(t)
                /\ Goto("poll") /\ UNCHANGED charge
      PROVE  IInv'
  <2> USE DEF IInv, TypeInv, JobInv
  <2>1. /\ J \in Jobs /\ binding[J] \in Commands /\ J \notin saved
        /\ status[J] \in {"running", "cancel_requested"}
        /\ tasks[binding[J]] = 0 /\ runner.job = J
    BY <1>1, CallbackJob, CallbackFacts DEF TaskInv, J
  <2>2. /\ runner' \in Runners /\ runner'.job = J
        /\ runner'.pc \in {"poll", "rank", "end"}
        /\ runner'.pc = "rank" => t = "done"
        /\ runner'.pc = "end" => runner'.outcome = "error"
        /\ charge' \in [Jobs -> Charges]
        /\ \A j \in Jobs : charge'[j] = "started" => j = J /\ runner'.pc = "poll"
    <3>1. CASE Succeed /\ "success" \in FirstOutcomes(t)
      BY <1>1, <3>1, FinishFacts, SuccessIsDone
    <3>2. CASE Fail
      BY <1>1, <3>2, FinishFacts
    <3>3. CASE Goto("poll") /\ UNCHANGED charge
      BY <1>1, <3>3, GotoFacts, CallbackJob, CallbackFacts DEF Pcs, J
    <3>4. QED
      BY <1>3, <3>1, <3>2, <3>3
  <2>3. (ClockInv /\ QueueType)'
    BY <1>1, <2>2 DEF RunnerFrame, ClockInv, QueueType
  <2>4. MoneyType'
    <3>1. tasks' \in [Commands -> Nat] /\ task' \in [Jobs -> Tasks]
      BY <1>3, <2>1 DEF MoneyType, Tasks
    <3>2. QED
      BY <1>1, <2>2, <3>1 DEF MoneyType
  <2>5. (StoreInv /\ DownInv /\ BindingInv /\ AgeInv)'
    BY <1>1
       DEF RunnerFrame, store, ClockInv, StoreInv, DownInv, BindingInv,
           OneJobPerCommand, AgeInv
  <2>6. (RunInv /\ ResultInv /\ ChargesClosed)'
    BY <1>1, <1>3, <2>1, <2>2 DEF RunInv, ResultInv, ChargesClosed, MoneyType
  <2>7. TaskInv'
    <3>1. /\ tasks'[binding[J]] = 1
          /\ \A c \in Commands \ {binding[J]} : tasks'[c] = tasks[c]
      BY <1>3, <2>1 DEF MoneyType
    <3>2. \A j \in Jobs : status[j] = "queued" => binding[j] # binding[J]
      BY <2>1 DEF BindingInv, OneJobPerCommand, QueueType
    <3>3. OneTaskPerCommand'
      BY <3>1 DEF TaskInv, OneTaskPerCommand
    <3>4. \A c \in Commands : (\A j \in Jobs : binding[j] # c) => tasks'[c] = 0
      BY <2>1, <3>1 DEF TaskInv
    <3>5. \A j \in Jobs : status[j] = "queued" => tasks'[binding[j]] = 0
      BY <3>1, <3>2 DEF TaskInv, BindingInv, QueueType
    <3>6. QED
      BY <1>1, <2>1, <2>2, <3>3, <3>4, <3>5 DEF TaskInv, RunnerFrame
  <2>8. HistoryInv'
    BY <1>1, <1>3, <2>1, <2>2
       DEF RunnerFrame, HistoryInv, SavedFromCompletedTask, HistoriesExplained,
           SucceededHasHistory, OrphanExplained, MoneyType
  <2>9. QED
    BY <2>3, <2>4, <2>5, <2>6, <2>7, <2>8
<1>4. QED
  BY <1>2, <1>3 DEF CreateTask

\* _run_one writes the row, or a storage error leaves it as it was.
LEMMA EndRunKeeps ==
    ASSUME IInv, EndRun
    PROVE  IInv'
<1> USE DEF IInv, TypeInv, JobInv
<1>1. /\ J \in Jobs /\ status[J] \in {"running", "cancel_requested"}
      /\ binding[J] \in Commands /\ runner.job = J
      /\ runner' = Idle /\ runner'.job \notin Jobs /\ runner'.pc = "idle"
  BY CallbackJob, IdleFacts DEF EndRun, J
<1>2. /\ up /\ runner.pc = "end" /\ flagged' = flagged \ {J}
      /\ UNCHANGED <<clock, up, approved, store, binding, ledger, world, acked,
                     exits>>
  BY DEF EndRun
<1>3. ChargesClosed'
  BY <1>2 DEF ChargesClosed, ledger
<1>4. (StoreInv /\ DownInv)'
  BY <1>2 DEF StoreInv, DownInv, store
<1>5. CASE stopped' = stopped \cup {J} /\ UNCHANGED <<status, finished>>
  <2>1. (ClockInv /\ QueueType /\ MoneyType)'
    BY <1>1, <1>2, <1>5, IdleFacts
       DEF ledger, world, ClockInv, QueueType, MoneyType
  <2>2. (BindingInv /\ AgeInv)'
    BY <1>2, <1>5 DEF BindingInv, OneJobPerCommand, AgeInv
  <2>3. (RunInv /\ ResultInv /\ TaskInv)'
    BY <1>1, <1>2, <1>5 DEF world, RunInv, ResultInv, TaskInv, OneTaskPerCommand
  <2>4. HistoryInv'
    BY <1>1, <1>2, <1>5
       DEF world, HistoryInv, SavedFromCompletedTask, HistoriesExplained,
           SucceededHasHistory, OrphanExplained, MoneyType
  <2>5. QED
    BY <1>3, <1>4, <2>1, <2>2, <2>3, <2>4
<1>6. CASE /\ status' = [status EXCEPT ![J] = Finished(@, runner.outcome)]
           /\ finished' = [finished EXCEPT ![J] = clock]
           /\ UNCHANGED stopped
  <2>1. /\ status'[J] \in Final
        /\ status'[J] = "succeeded" => runner.outcome = "result"
        /\ status'[J] = "failed" => runner.outcome # "result"
        /\ status'[J] = "cancelled" => status[J] = "cancel_requested"
        /\ status'[J] # "timed_out" /\ finished'[J] = clock
        /\ \A j \in Jobs \ {J} : status'[j] = status[j] /\ finished'[j] = finished[j]
    BY <1>1, <1>6 DEF Finished, Final, QueueType
  <2>2. (ClockInv /\ QueueType /\ MoneyType)'
    BY <1>1, <1>2, <1>6, <2>1, IdleFacts
       DEF ledger, world, ClockInv, QueueType, MoneyType, Statuses
  <2>3. (BindingInv /\ AgeInv)'
    BY <1>1, <1>2, <2>1
       DEF BindingInv, OneJobPerCommand, AgeInv, Final, ClockInv, QueueType,
           Stamps, Never, Lost
  <2>4. (RunInv /\ ResultInv /\ TaskInv)'
    BY <1>1, <1>2, <2>1
       DEF world, RunInv, ResultInv, TaskInv, OneTaskPerCommand, Final
  <2>5. J \in saved <=> runner.outcome = "result"
    BY <1>1, <1>2 DEF HistoryInv, ResultInv
  <2>6. (SavedFromCompletedTask /\ SucceededHasHistory)'
    BY <1>2, <2>1, <2>5
       DEF world, HistoryInv, HistoriesExplained, SavedFromCompletedTask,
           SucceededHasHistory
  <2>7. OrphanExplained'
    BY <1>1, <1>2, <1>6, <2>1, <2>5
       DEF world, HistoryInv, HistoriesExplained, OrphanExplained, MoneyType,
           Final
  <2>8. /\ \A j \in saved : status'[j] \notin {"fresh", "queued"}
        /\ \A j \in Jobs :
             /\ status'[j] = "cancel_requested" => j \in acked
             /\ status'[j] = "running" => j \in stopped
    BY <1>1, <2>1 DEF HistoryInv, MoneyType, Final
  <2>9. HistoryInv'
    BY <1>1, <1>2, <1>6, <2>6, <2>7, <2>8
       DEF world, HistoryInv, HistoriesExplained, MoneyType
  <2>10. QED
    BY <1>3, <1>4, <2>2, <2>3, <2>4, <2>9
<1>7. QED
  BY <1>5, <1>6 DEF EndRun

-----------------------------------------------------------------------------
(* The theorems *)

\* A step that changes no variable keeps the invariant.
LEMMA StutterKeeps ==
    ASSUME IInv, UNCHANGED vars
    PROVE  IInv'
<1> USE DEF IInv, TypeInv, JobInv, vars
<1>1. (ClockInv /\ QueueType /\ MoneyType /\ StoreInv)'
  BY DEF ClockInv, QueueType, MoneyType, StoreInv
<1>2. (DownInv /\ BindingInv /\ AgeInv /\ RunInv)'
  BY DEF DownInv, BindingInv, OneJobPerCommand, AgeInv, RunInv
<1>3. (ResultInv /\ TaskInv /\ HistoryInv /\ ChargesClosed)'
  BY DEF ResultInv, TaskInv, OneTaskPerCommand, HistoryInv,
         SavedFromCompletedTask, HistoriesExplained, SucceededHasHistory,
         OrphanExplained, ChargesClosed
<1>4. QED
  BY <1>1, <1>2, <1>3

\* An empty store and an empty queue.
LEMMA InitIInv == Init => IInv
<1> SUFFICES ASSUME Init PROVE IInv
  OBVIOUS
<1> USE DEF Init, IInv, TypeInv, JobInv
<1>1. ClockInv /\ QueueType /\ MoneyType
  BY ProductionAssumption, IdleFacts
     DEF ClockInv, Stamps, Never, Lost, QueueType, Statuses, MoneyType,
         Charges, Tasks
<1>2. StoreInv /\ DownInv
  BY DEF StoreInv, Slots, Posts, DownInv
<1>3. BindingInv /\ AgeInv /\ RunInv
  BY NamesAssumption DEF BindingInv, OneJobPerCommand, AgeInv, RunInv
<1>4. ResultInv /\ TaskInv /\ ChargesClosed
  BY IdleFacts DEF ResultInv, TaskInv, OneTaskPerCommand, ChargesClosed
<1>5. HistoryInv
  BY DEF HistoryInv, SavedFromCompletedTask, HistoriesExplained,
         SucceededHasHistory, OrphanExplained
<1>6. QED
  BY <1>1, <1>2, <1>3, <1>4, <1>5

\* Every action keeps the invariant.
LEMMA StepIInv == IInv /\ [Next]_vars => IInv'
<1> SUFFICES ASSUME IInv, [Next]_vars PROVE IInv'
  OBVIOUS
<1>1. ASSUME NEW c \in Commands, Approve(c) PROVE IInv'
  BY <1>1, ApproveKeeps
<1>2. ASSUME NEW c \in Commands, NEW k \in Capabilities, NEW d \in Delays,
             Register(c, k, d)
      PROVE  IInv'
  BY <1>2, RegisterKeeps
<1>3. ASSUME NEW k \in Capabilities, Post(k) PROVE IInv'
  BY <1>3, PostKeeps
<1>4. CASE PostRecorded \/ PostRaised
  BY <1>4, PostRecordedKeeps, PostRaisedKeeps
<1>5. ASSUME NEW j \in Jobs,
             CancelJob(j) \/ SignalCancel(j) \/ ExpireQueued(j)
      PROVE  IInv'
  BY <1>5, CancelJobKeeps, SignalCancelKeeps, ExpireQueuedKeeps
<1>6. ASSUME NEW j \in Jobs,
             ForgetJob(j) \/ StartJob(j) \/ ProviderCompletes(j)
      PROVE  IInv'
  BY <1>6, ForgetJobKeeps, StartJobKeeps, ProviderCompletesKeeps
<1>7. CASE RunnerStep
  BY <1>7, LoadKeyKeeps, AuthorizeKeeps, CreateTaskKeeps, PollKeeps, RankKeeps,
     RankedKeeps, SaveHistoryKeeps, EndRunKeeps
     DEF RunnerStep
<1>8. CASE Tick \/ Exit \/ Restart
  BY <1>8, TickKeeps, ExitKeeps, RestartKeeps
<1>9. CASE UNCHANGED vars
  BY <1>9, StutterKeeps
<1>10. QED
  BY <1>1, <1>2, <1>3, <1>4, <1>5, <1>6, <1>7, <1>8, <1>9 DEF Next

\* The inductive invariant holds in every state of every behaviour.
THEOREM Invariance == Spec => []IInv
<1>1. QED
  BY InitIInv, StepIInv, PTL DEF Spec

\* One approved command, one job and one paid provider task, however often it
\* is registered, posted and retried, through exits and restarts: submit() in
\* production_search.py binds the job, and the plan of a purged job has
\* expired before its row goes.
THEOREM OnceTheorem == Spec => []OncePerCommand
<1>1. IInv => OncePerCommand
  <2> SUFFICES ASSUME IInv PROVE OncePerCommand
    OBVIOUS
  <2> USE DEF IInv, TypeInv, JobInv
  <2>1. \A k \in Capabilities : entries[k] = NoEntry \/ entries[k].expires_at \in Expiries
    BY SlotFields DEF StoreInv
  <2>2. runner.polls \in 0..(MaxPolls - 1)
    BY DEF QueueType, Runners
  <2>3. TypeOK
    BY <2>1, <2>2
       DEF TypeOK, ClockInv, QueueType, MoneyType, Stamps, Statuses, Charges,
           Expiries
  <2>4. QED
    BY <2>3 DEF OncePerCommand, BindingInv, TaskInv
<1>2. QED
  BY <1>1, Invariance, PTL

\* A saved history comes from a task the provider finished: neither giving up
\* after the last poll nor a bad reply becomes a result (_execute_task in
\* outscraper_http.py).
THEOREM CompletedTaskTheorem == Spec => []SavedFromCompletedTask
<1>1. IInv => SavedFromCompletedTask
  BY DEF IInv, HistoryInv
<1>2. QED
  BY <1>1, Invariance, PTL

\* A succeeded job has its history, and a history without a succeeded job has
\* a known cause: an accepted cancellation or an end that never reached the
\* row (_run_one in local_search_jobs.py).
THEOREM HistoriesTheorem == Spec => []HistoriesExplained
<1>1. IInv => HistoriesExplained
  BY DEF IInv, HistoryInv
<1>2. QED
  BY <1>1, Invariance, PTL

\* No charge outlives the callback that opened it: every way out of
\* execute_outscraper_request finishes the reservation.
THEOREM ChargesTheorem == Spec => []ChargesClosed
<1>1. IInv => ChargesClosed
  BY DEF IInv
<1>2. QED
  BY <1>1, Invariance, PTL
=============================================================================
