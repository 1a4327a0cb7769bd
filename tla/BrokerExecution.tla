--------------------------- MODULE BrokerExecution ---------------------------
(* The paid half of an AI review: tools/ai_review/broker_outer_executor.py    *)
(* runs a prepared batch, one isolated model call per review role.  Each call *)
(* gets two networks and a gateway container of its own, made by separate     *)
(* commands of the container runtime, a row of its workflow's own ledger, and *)
(* a cleanup that runs however it went.                                       *)
(*                                                                            *)
(* The names of a run's resources are digests of its invocation, so two       *)
(* batches over one review packet use the SAME names; only the session label  *)
(* on a resource tells whose it is.  Every command may fail, with or without  *)
(* having taken effect, and the executor may die between any two commands.    *)
EXTENDS BrokerEvidence

CONSTANTS
  Batches,        \* the prepared batches (one per review workflow), numbered
  MaxFaults       \* bound: commands that fail, and deaths, in a behaviour

ASSUME BrokerAssumption == MaxFaults \in Nat /\ Batches \subseteq Nat \ {0}

VARIABLES
  exec,           \* exec[b]: where batch b is, see Idle
  runtime,        \* runtime[n]: the session label of the resource named n
  ledger,         \* ledger[b]: the rows of the broker_reservations of workflow b
  calls,          \* calls[b]: the model calls that b started, see Started
  trespass,       \* the names a session removed from another session
  faults          \* faults so far

brokerVars == <<exec, runtime, ledger, calls, trespass, faults>>

Free == <<>>
\* the names are a function of packet, role and attempt (attempt is always 1)
Names == Packets \X RoleSet \X (Lifecycle \cup {"broker"})

Ended == {"done", "failed", "crashed"}

NoPacket == "no packet"
Nothing == [k \in Lifecycle |-> Free]
\* what _execute_one has collected of one run
NoRun == [log |-> <<>>, before |-> Nothing, after |-> Nothing, removed |-> Nothing,
          held |-> {}, answer |-> "none", slow |-> FALSE, post |-> Approved]
Idle == [pc |-> "idle", packet |-> NoPacket, role |-> 1, at |-> 1,
         created |-> {}, attempted |-> FALSE, removed |-> FALSE,
         failed |-> FALSE, clean |-> TRUE, dirty |-> FALSE,
         pre |-> Approved, run |-> [r \in RoleSet |-> NoRun], final |-> {}]

Role(b) == Roles[exec[b].role]
\* a session is one _execute_one call; os.urandom makes its label unique
Session(b) == <<b, Role(b)>>
Run(b) == Invocation(exec[b].packet, Role(b), Binding)
Name(b, kind) == NameOf(Run(b), kind)
Found(b) == [k \in Lifecycle |-> runtime[Name(b, k)]]

(* _run_record: the commands that exit 0 are recorded, in order.              *)
Record(b, argvs, pc) ==
  [exec[b] EXCEPT !.run[Role(b)].log = @ \o argvs, !.pc = pc, !.at = 1]
\* an exception inside the try block: the failure is kept, the cleanup runs
Raise(b) == [exec[b] EXCEPT !.failed = TRUE, !.pc = "cleanup", !.at = 1]
Become(b, state) == exec' = [exec EXCEPT ![b] = state]
\* the executor ends without evidence; what it had collected is lost
Lost(b, pc) == [Idle EXCEPT !.pc = pc, !.packet = exec[b].packet, !.role = exec[b].role,
                            !.dirty = exec[b].dirty]
Fault == faults < MaxFaults /\ faults' = faults + 1
-------------------------------------------------------------------------------
(* _execute_prepared_broker_outer: the credentials, the runtime's name and    *)
(* environment, and what is found where its executable is, must be those of   *)
(* the binding, before the first role runs.                                   *)
Probe(b) ==
  /\ exec[b].pc = "probe"
  /\ \E host \in Hosts :
       /\ IF host = Approved THEN UNCHANGED faults ELSE Fault
       /\ Become(b, IF ProbeHolds(host, Binding)
                    THEN [exec[b] EXCEPT !.pre = host, !.pc = "preflight"]
                    ELSE Lost(b, "failed"))
  /\ UNCHANGED <<runtime, ledger, calls, trespass>>

(* The three names must be absent (gateway, internal, external).              *)
Preflight(b) ==
  /\ exec[b].pc = "preflight"
  /\ IF \A k \in Lifecycle : runtime[Name(b, k)] = Free
     THEN Become(b, Record(b, AbsenceArgv, "create"))
     ELSE Become(b, Raise(b))
  /\ UNCHANGED <<runtime, ledger, calls, trespass, faults>>

\* mutant: the flag is set only once the create command has succeeded
FlagOnSuccess(b, kind) == exec[b].created
(* created_internal, created_external, created_gateway are set BEFORE their   *)
(* command is run, so a command that fails leaves its flag behind.            *)
FlagBefore(b, kind) == exec[b].created \cup {kind}

(* One create command.  The runtime refuses a name in use; a command that     *)
(* fails for another reason may have taken effect (a timeout).                *)
Create(b) ==
  LET kind == CreateOrder[exec[b].at]
      name == Name(b, kind)
      made == [runtime EXCEPT ![name] = Session(b)]
      ok == [exec[b] EXCEPT !.created = @ \cup {kind},
                            !.run[Role(b)].log = Append(@, CreateArgv(kind)),
                            !.pc = IF exec[b].at = 3 THEN "connect" ELSE "create",
                            !.at = IF exec[b].at = 3 THEN 1 ELSE @ + 1]
      raised == [Raise(b) EXCEPT !.created = FlagBefore(b, kind)]
  IN /\ exec[b].pc = "create"
     /\ \/ /\ runtime[name] = Free
           /\ runtime' = made
           /\ Become(b, ok)
           /\ UNCHANGED faults
        \/ /\ runtime[name] # Free
           /\ Become(b, raised)
           /\ UNCHANGED <<runtime, faults>>
        \/ /\ runtime[name] = Free
           /\ Fault
           /\ Become(b, raised)
           /\ runtime' \in {runtime, made}
     /\ UNCHANGED <<ledger, calls, trespass>>

(* The gateway is attached to the internal network.                           *)
Connect(b) ==
  /\ exec[b].pc = "connect"
  /\ \/ Become(b, Record(b, <<ConnectArgv>>, "inspect")) /\ UNCHANGED faults
     \/ Become(b, Raise(b)) /\ Fault
  /\ UNCHANGED <<runtime, ledger, calls, trespass>>

(* _validate_network and _validate_gateway: all three resources are there,    *)
(* linked as they should be, and carry this session's label.                  *)
BoundaryHolds(b) == InspectionHolds(Found(b), Session(b))

(* serve_once: a gateway relays one connection and then exits, so after the   *)
(* call it may be found stopped, and is then no member of the networks.       *)
GatewayGone(b) == exec[b].run[Role(b)].answer \notin {"none", "error"}

Inspect(b) ==
  /\ exec[b].pc = "inspect"
  /\ \/ /\ BoundaryHolds(b)
        /\ Become(b, [Record(b, InspectArgvs, "reserve")
                        EXCEPT !.run[Role(b)].before = Found(b)])
        /\ UNCHANGED faults
     \/ ~BoundaryHolds(b) /\ Become(b, Raise(b)) /\ UNCHANGED faults
     \/ Become(b, Raise(b)) /\ Fault
  /\ UNCHANGED <<runtime, ledger, calls, trespass>>

(* The same inspections after the call; they must give what they gave before, *)
(* whether the gateway runs included.                                         *)
InspectAgain(b) ==
  /\ exec[b].pc = "post"
  /\ \/ /\ BoundaryHolds(b) /\ Found(b) = exec[b].run[Role(b)].before
        /\ Become(b, [Record(b, InspectArgvs, "cleanup")
                        EXCEPT !.run[Role(b)].after = Found(b)])
        /\ UNCHANGED faults
     \/ /\ GatewayGone(b) \/ ~BoundaryHolds(b)
        /\ Become(b, Raise(b)) /\ UNCHANGED faults
     \/ Become(b, Raise(b)) /\ Fault
  /\ UNCHANGED <<runtime, ledger, calls, trespass>>

Rows(b) == {r \in ledger[b] : r.packet = exec[b].packet}
Attempts(b) == {r.attempt : r \in {x \in Rows(b) : x.role = Role(b)}}
(* _reserve, one BEGIN IMMEDIATE transaction: attempts are contiguous, this   *)
(* one is the next, and the packet's reserved total stays within its limits.  *)
MayReserve(b) ==
  /\ Attempts(b) = 1..Cardinality(Attempts(b))
  /\ Run(b).attempt = Cardinality(Attempts(b)) + 1
  /\ Cardinality(Rows(b)) + Run(b).tokens <= TokenLimit

\* mutant: every row is written for the first role of the batch
RowOfBatch(b) == [packet |-> exec[b].packet, role |-> Roles[1], attempt |-> Run(b).attempt]
Row(b) == [packet |-> exec[b].packet, role |-> Role(b), attempt |-> Run(b).attempt]
WithRow(b) == [ledger EXCEPT ![b] = @ \cup {Row(b)}]
\* A failure may leave the row: the COMMIT raises after it took effect, or the
\* ledger's identity has changed once the connection is closed.
Reserve(b) ==
  /\ exec[b].pc = "reserve"
  /\ IF MayReserve(b)
     THEN \/ /\ ledger' = WithRow(b)
             /\ Become(b, [exec[b] EXCEPT !.run[Role(b)].held = Rows(b) \cup {Row(b)},
                                           !.pc = "call"])
             /\ UNCHANGED faults
          \/ Become(b, Raise(b)) /\ Fault /\ ledger' \in {ledger, WithRow(b)}
     ELSE Become(b, Raise(b)) /\ UNCHANGED <<ledger, faults>>
  /\ UNCHANGED <<runtime, calls, trespass>>

\* a call that was started: what for, and whether behind the session's gateway
Started(b) == [packet |-> exec[b].packet, role |-> Role(b), walled |-> BoundaryHolds(b)]

(* The broker container is started under its deterministic name: the call is  *)
(* paid for from here on.  Its process answers with a review or with          *)
(* something that is none, ends with an error, or is killed at its time or    *)
(* byte limit (_real_run raises); all of it may take long.                    *)
Call(b) ==
  LET name == Name(b, "broker")
      ended(a, slow) == [exec[b] EXCEPT !.pc = "remove", !.attempted = TRUE,
                           !.run[Role(b)].answer = a, !.run[Role(b)].slow = slow]
  IN /\ exec[b].pc = "call"
     /\ \/ /\ runtime[name] = Free
           /\ runtime' = [runtime EXCEPT ![name] = Session(b)]
           /\ calls' = [calls EXCEPT ![b] = Append(@, Started(b))]
           /\ \/ /\ \E d \in Decisions[Role(b)] : Become(b, ended(d, FALSE))
                 /\ UNCHANGED faults
              \/ /\ \E d \in Decisions[Role(b)] : Become(b, ended(d, TRUE))
                 /\ Fault
              \/ Become(b, ended("unusable", FALSE)) /\ Fault
              \/ Become(b, ended("error", FALSE)) /\ Fault
              \/ Become(b, [Raise(b) EXCEPT !.attempted = TRUE]) /\ Fault
        \/ /\ runtime[name] # Free
           /\ Become(b, ended("error", FALSE))
           /\ UNCHANGED <<runtime, calls, faults>>
     /\ UNCHANGED <<ledger, trespass>>

(* rm -f by NAME: unlike the lifecycle resources, nothing looks at the label. *)
(* An rm that exits with an error has been tried; one that raises (its time   *)
(* limit), having removed the container or not, is tried again by the cleanup.*)
RemoveBroker(b, next, failed, raised) ==
  LET name == Name(b, "broker")
      gone == [runtime EXCEPT ![name] = Free]
      owners == {Free, Session(b)}
  IN /\ \/ /\ runtime' = gone
           /\ trespass' = IF runtime[name] \in owners THEN trespass ELSE trespass \cup {name}
           /\ Become(b, [next EXCEPT !.removed = TRUE])
           /\ UNCHANGED faults
        \/ /\ Fault
           /\ Become(b, [failed EXCEPT !.removed = TRUE, !.dirty = TRUE])
           /\ UNCHANGED <<runtime, trespass>>
        \/ /\ Fault
           /\ Become(b, raised)
           /\ runtime' \in {runtime, gone} /\ UNCHANGED trespass
     /\ UNCHANGED <<ledger, calls>>

(* clean_broker_container after the call; a failed rm is a failure.  Then the *)
(* exit code of the call counts.                                              *)
Remove(b) ==
  /\ exec[b].pc = "remove"
  /\ RemoveBroker(b, IF exec[b].run[Role(b)].answer = "error" THEN Raise(b)
                     ELSE Record(b, BrokerArgvs, "post"),
                  Raise(b), Raise(b))

\* the finally block starts with the broker container, if the call did not
CleanupCall(b) ==
  LET unclean == [exec[b] EXCEPT !.clean = FALSE]
  IN /\ exec[b].pc = "cleanup" /\ exec[b].at = 1
     /\ exec[b].attempted /\ ~exec[b].removed
     /\ RemoveBroker(b, exec[b], unclean, [unclean EXCEPT !.removed = TRUE, !.dirty = TRUE])

(* _validate_owned: the inspected resource carries this owner and session.    *)
Owned(b, name) == runtime[name] = Session(b)

\* mutant: a resource that cannot be removed is tried again and again
RetryForever(b, ok) ==
  [exec[b] EXCEPT !.dirty = @ \/ ~ok,
                  !.pc = IF ok /\ exec[b].at = 3 THEN "absent" ELSE "cleanup",
                  !.at = IF ~ok THEN @ ELSE IF exec[b].at = 3 THEN 1 ELSE @ + 1]
(* The cleanup goes on to the next resource whatever became of this one.      *)
NextTarget(b, ok) ==
  [exec[b] EXCEPT !.clean = @ /\ ok, !.dirty = @ \/ ~ok,
                  !.pc = IF exec[b].at = 3 THEN "absent" ELSE "cleanup",
                  !.at = IF exec[b].at = 3 THEN 1 ELSE @ + 1]

(* What podman does with network rm: a network that containers are configured *)
(* for, running or not, is not removed.                                       *)
InUse(b, kind) ==
  \/ kind # "gateway" /\ runtime[Name(b, "gateway")] # Free
  \/ kind = "internal" /\ runtime[Name(b, "broker")] # Free

(* One target of the finally block: skipped if its flag is not set, else      *)
(* inspected, checked to be this session's, and removed.                      *)
Cleanup(b) ==
  LET kind == CleanupOrder[exec[b].at]
      name == Name(b, kind)
      gone == [runtime EXCEPT ![name] = Free]
      removed == [NextTarget(b, TRUE) EXCEPT !.run[Role(b)].log =
                    @ \o <<InspectArgv(kind), RemoveArgv(kind)>>,
                    !.run[Role(b)].removed[kind] = runtime[name]]
  IN /\ exec[b].pc = "cleanup"
     /\ exec[b].attempted => exec[b].removed
     /\ \/ /\ kind \notin exec[b].created
           /\ Become(b, NextTarget(b, TRUE))
           /\ UNCHANGED <<runtime, trespass, faults>>
        \/ /\ kind \in exec[b].created /\ Owned(b, name) /\ ~InUse(b, kind)
           /\ runtime' = gone
           /\ trespass' = IF runtime[name] = Session(b) THEN trespass
                          ELSE trespass \cup {name}
           /\ Become(b, removed)
           /\ UNCHANGED faults
        \/ /\ kind \in exec[b].created /\ (~Owned(b, name) \/ InUse(b, kind))
           /\ Become(b, NextTarget(b, FALSE))
           /\ UNCHANGED <<runtime, trespass, faults>>
        \/ /\ kind \in exec[b].created /\ Fault
           /\ Become(b, NextTarget(b, FALSE))
           /\ runtime' \in {runtime, IF Owned(b, name) /\ ~InUse(b, kind) THEN gone ELSE runtime}
           /\ UNCHANGED trespass
     /\ UNCHANGED <<ledger, calls>>

(* The names must be absent again; a cleanup that could not be attested       *)
(* replaces whatever failure there was, and fails a call that succeeded.      *)
Absent(b) ==
  LET gone == \A k \in exec[b].created : runtime[Name(b, k)] = Free
      failed == exec[b].failed \/ ~exec[b].clean \/ ~gone
  IN /\ exec[b].pc = "absent"
     /\ Become(b, IF failed THEN Lost(b, "failed")
                  ELSE Record(b, AbsenceArgv, "reprobe"))
     /\ UNCHANGED <<runtime, ledger, calls, trespass, faults>>

(* The runtime is probed again and must be the file it was; then the other    *)
(* role runs.                                                                 *)
Reprobe(b) ==
  LET next == IF exec[b].role = 2 THEN [exec[b] EXCEPT !.pc = "measure"]
              ELSE [exec[b] EXCEPT !.pc = "preflight", !.role = 2, !.created = {},
                                   !.attempted = FALSE, !.removed = FALSE]
      same(host) == ProbeHolds(host, Binding) /\ host.inode = exec[b].pre.inode
  IN /\ exec[b].pc = "reprobe"
     /\ \E host \in Hosts :
          /\ IF host = exec[b].pre THEN UNCHANGED faults ELSE Fault
          /\ Become(b, IF same(host) THEN [next EXCEPT !.run[Role(b)].post = host]
                       ELSE Lost(b, "failed"))
     /\ UNCHANGED <<runtime, ledger, calls, trespass>>

(* _measure_frozen_ledger: the packet's rows, each role's attempts contiguous *)
(* and at most two, the totals within the limits.                             *)
LedgerSound(b) == RowsSound(Rows(b), exec[b].packet)

Measure(b) ==
  /\ exec[b].pc = "measure"
  /\ Become(b, IF LedgerSound(b) THEN [exec[b] EXCEPT !.pc = "done", !.final = Rows(b)]
               ELSE Lost(b, "failed"))
  /\ UNCHANGED <<runtime, ledger, calls, trespass, faults>>

(* The canonical evidence of a batch that succeeded (_outer_payload).         *)
RunRecord(b, run) ==
  LET r == run.request.role IN
  [role |-> r, descriptor |-> run, session |-> <<b, r>>, pre |-> exec[b].pre,
   post |-> exec[b].run[r].post, log |-> exec[b].run[r].log,
   before |-> exec[b].run[r].before, after |-> exec[b].run[r].after,
   removed |-> exec[b].run[r].removed, held |-> exec[b].run[r].held,
   slow |-> exec[b].run[r].slow, answer |-> BrokerResult(run.request, exec[b].run[r].answer)]
Evidence(b, batch) ==
  [batch |-> batch, runs |-> [i \in DOMAIN batch[4] |-> RunRecord(b, batch[4][i])],
   final |-> exec[b].final]

(* The executor dies between two commands: nothing of it is cleaned up.       *)
Die(b) ==
  /\ exec[b].pc \notin Ended \cup {"idle"}
  /\ Fault
  /\ Become(b, [Lost(b, "crashed") EXCEPT !.dirty = TRUE])
  /\ UNCHANGED <<runtime, ledger, calls, trespass>>

(* broker_execute: a workflow hands over its prepared batch, which is parsed. *)
Begin(b, batch) ==
  /\ exec[b].pc = "idle"
  /\ Become(b, [exec[b] EXCEPT !.pc = IF BatchParses(batch) THEN "probe" ELSE "failed",
                               !.packet = batch[3]])
  /\ UNCHANGED <<runtime, ledger, calls, trespass, faults>>

ExecuteOne(b) ==
  \/ Preflight(b) \/ Create(b) \/ Connect(b) \/ Inspect(b) \/ Reserve(b)
  \/ Call(b) \/ Remove(b) \/ InspectAgain(b) \/ CleanupCall(b) \/ Cleanup(b) \/ Absent(b)
ExecuteBatch(b) == Probe(b) \/ ExecuteOne(b) \/ Reprobe(b) \/ Measure(b)

BrokerInit ==
  /\ exec = [b \in Batches |-> Idle]
  /\ runtime = [n \in Names |-> Free]
  /\ ledger = [b \in Batches |-> {}] /\ calls = [b \in Batches |-> <<>>] /\ trespass = {} /\ faults = 0
==================================================
