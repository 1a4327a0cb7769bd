---------------------------- MODULE BrokerEvidence ----------------------------
(* The evidence of a broker batch: what the outer executor records of every   *)
(* run, and what the coordinator, which never sees the runtime, demands of it *)
(* when it finalizes the phase (broker_phase_protocol.py, broker_executor.py, *)
(* broker_egress_provisioner.py) and when it signs (broker_result.py).        *)
(*                                                                            *)
(* A command of the container runtime is <<verb, resource>>: the name of the  *)
(* resource follows from the run.  An inspection is the session label found   *)
(* on every resource.                                                         *)
EXTENDS BrokerBatch

LOCAL INSTANCE SequencesExt

CONSTANT
  Decisions       \* Decisions[r]: what role r may answer

\* what the judge tells apart: a rejection, an open question or a medium
\* finding, and neither
ASSUME DecisionsAssumption == Decisions \in [RoleSet -> SUBSET {"accept", "medium", "reject"}]

Lifecycle == {"internal", "external", "gateway"}
CreateOrder == <<"internal", "external", "gateway">>
CleanupOrder == <<"gateway", "internal", "external">>
-------------------------------------------------------------------------------
(* Commands.                                                                  *)

\* container ls --all, network ls, filtered by the exact name
AbsenceArgv == [i \in 1..3 |-> <<"ls", CleanupOrder[i]>>]
\* network create with the session's labels, run --detach
CreateArgv(kind) == <<IF kind = "gateway" THEN "run" ELSE "create", kind>>
\* network connect --alias
ConnectArgv == <<"connect", "gateway">>
InspectArgv(kind) == <<"inspect", kind>>
InspectArgvs == [i \in 1..3 |-> InspectArgv(CreateOrder[i])]
\* container rm -f, network rm
RemoveArgv(kind) == <<"rm", kind>>
\* the isolated invocation, and rm -f of its container
BrokerArgvs == <<<<"run", "broker">>, <<"rm", "broker">>>>

(* _expected_lifecycle_argv: the four groups of commands of a run that        *)
(* succeeded, with the broker's own between the first two.                    *)
ExpectedLifecycle ==
  FlattenSeq(<<AbsenceArgv, [i \in 1..3 |-> CreateArgv(CreateOrder[i])], <<ConnectArgv>>,
               InspectArgvs, BrokerArgvs, InspectArgvs,
               FlattenSeq([i \in 1..3 |-> <<InspectArgv(CleanupOrder[i]), RemoveArgv(CleanupOrder[i])>>]),
               AbsenceArgv>>)
(* _decode_raw_command: no command took longer than a broker call may.        *)
CommandsHold(ev) == ev.log = ExpectedLifecycle
-------------------------------------------------------------------------------
(* The evidence of one run.                                                   *)

(* _decode_runtime_measurement: both probes answered what was bound to.       *)
RuntimeEvidenceHolds(host, rt) == ProbeHolds(host, rt)
(* runtime_pre and runtime_post are one file, by device and inode.            *)
RuntimeUnchanged(ev) == ev.pre.exe = ev.post.exe /\ ev.pre.inode = ev.post.inode

(* _validate_network_inspect, _validate_gateway_inspect: the internal and the *)
(* external network with the gateway as only member, and the gateway in both. *)
InspectionHolds(found, session) == \A k \in Lifecycle : found[k] = session
(* The inspections before and after the call are byte for byte the same.      *)
BoundaryUnchanged(ev) == InspectionHolds(ev.before, ev.session) /\ ev.after = ev.before
(* _validate_owned_resource_inspect: what was removed was this session's.     *)
OwnedAtRemoval(ev) == \A k \in Lifecycle : ev.removed[k] = ev.session

(* The run is the prepared one.                                               *)
RunBound(ev, run) == ev.role = run.request.role /\ ev.descriptor = run
(* duration_ms of the whole run.                                              *)
TimingHolds(ev) == ~ev.slow

(* canonical_result_bytes: what the process in the container prints, the      *)
(* request it was given and the response it got.                              *)
BrokerResult(request, review) == [request |-> request, review |-> review]
(* _parse_canonical_envelope: an answer to this run's request, whatever the   *)
(* response says.                                                             *)
EnvelopeParses(ev, run) == ev.answer.request = run.request
(* parse_broker_review: the response is a completed review of that role.      *)
ReviewUsable(ev, run) == EnvelopeParses(ev, run) /\ ev.answer.review \in Decisions[ev.role]
-------------------------------------------------------------------------------
(* The ledger.  A row is [packet, role, attempt]; each reserves one call.     *)

(* _build_ledger_evidence: each role's attempts are contiguous, at most two.  *)
AttemptsContiguous(rows) ==
  \A row \in rows :
    /\ row.attempt \in 1..MaxRoleAttempts
    /\ row.attempt > 1 => [row EXCEPT !.attempt = @ - 1] \in rows
(* _validated_ledger_records: the rows of one packet, rebuilt, and what they  *)
(* reserve within the limits.                                                 *)
RowsSound(rows, packet) ==
  /\ rows # {} /\ Cardinality(rows) <= TokenLimit
  /\ \A row \in rows : row.packet = packet
  /\ AttemptsContiguous(rows)

(* _decode_frozen_ledger                                                      *)
FrozenLedgerHolds(final, batch) == RowsSound(final, batch[3])
(* _decode_reservation: the view a run had when it reserved is sound, holds   *)
(* the run's own row and is part of the final ledger.                         *)
ReservationHolds(ev, run, final) ==
  /\ RowsSound(ev.held, run.request.packet)
  /\ ev.held \subseteq final
  /\ [packet |-> run.request.packet, role |-> ev.role, attempt |-> run.attempt] \in ev.held
(* validate_successful_broker_executions_against_final_ledger: a role's       *)
(* attempts stop at its success, and the later run saw the final ledger.      *)
StopsAtSuccess(evs, runs, final) ==
  /\ \A i \in DOMAIN runs :
       {row.attempt : row \in {x \in final : x.role = evs[i].role}} = 1..runs[i].attempt
  /\ \A i, j \in DOMAIN evs : i # j => evs[i].held # evs[j].held
  /\ \E i \in DOMAIN evs : evs[i].held = final
-------------------------------------------------------------------------------
(* The evidence of a batch, [batch, runs, final].                             *)

(* _construct_provisioned_evidence                                            *)
RunHolds(ev, run, rt, final) ==
  /\ RunBound(ev, run)
  /\ RuntimeEvidenceHolds(ev.pre, rt) /\ RuntimeEvidenceHolds(ev.post, rt)
  /\ RuntimeUnchanged(ev)
  /\ CommandsHold(ev)
  /\ BoundaryUnchanged(ev)
  /\ OwnedAtRemoval(ev)
  /\ TimingHolds(ev)
  /\ ReservationHolds(ev, run, final)
  /\ EnvelopeParses(ev, run)

(* _finalize_provisioned_broker_execution: the evidence is this batch's, run  *)
(* for run.                                                                   *)
FinalizeEvidence(outer, batch) ==
  /\ BatchValid(batch)
  /\ outer.batch = batch
  /\ [i \in DOMAIN outer.runs |-> outer.runs[i].role] = Roles
  /\ FrozenLedgerHolds(outer.final, batch)
  /\ \A i \in DOMAIN batch[4] : RunHolds(outer.runs[i], batch[4][i], batch[5], outer.final)
  /\ StopsAtSuccess(outer.runs, batch[4], outer.final)

(* broker_egress_boundary_sha256: the topology a call was made behind.        *)
Boundary(ev) == <<ev.before, ev.session>>
(* BrokerExecutionEvidence and its digest: what a run is attested as.         *)
Execution(ev, run) ==
  [role |-> ev.role, request |-> run.request, attempt |-> run.attempt, runtime |-> run.runtime,
   boundary |-> Boundary(ev), reserved |-> Cardinality(ev.held), answer |-> ev.answer]
\* the evidence of role r
OfRole(outer, r) == outer.runs[CHOOSE i \in DOMAIN Roles : Roles[i] = r]
AnswerOf(outer, r) == OfRole(outer, r).answer.review
(* _broker_summary: what the phase commits of each execution.                 *)
Summaries(outer) ==
  [r \in RoleSet |-> <<OfRole(outer, r).answer, Cardinality(outer.final)>>]
===============================================================================
